---- MODULE Spec2Model ----
(***************************************************************************)
(* Calendar slot resolution and booking of the CalendarBooking component   *)
(* (client/src/components/CalendarBooking.tsx) and of the appointment      *)
(* endpoint (server/routes.ts, GHLService.createAppointment).              *)
(*                                                                         *)
(* Strings the code takes apart (provider timestamps, dates, display       *)
(* times) are sequences of one-character strings, so that the regular      *)
(* expression, the substring captures, parseInt and padStart are computed  *)
(* as the code computes them.  Timezone names and other opaque strings are *)
(* TLA+ strings; "" is JavaScript's empty (falsy) string and <<>> is the   *)
(* empty character sequence.                                               *)
(***************************************************************************)
EXTENDS Integers, Sequences, FiniteSets, Bags, TLC

(***************************************************************************)
(* Characters, numbers and padStart                                        *)
(***************************************************************************)
Digits == <<"0", "1", "2", "3", "4", "5", "6", "7", "8", "9">>

IsDigit(c) == \E i \in 1..10 : Digits[i] = c

DigitVal(c) == (CHOOSE i \in 1..10 : Digits[i] = c) - 1

\* parseInt(s, 10) of a string of digits
RECURSIVE parseInt(_)
parseInt(s) ==
    IF s = <<>> THEN 0
    ELSE 10 * parseInt(SubSeq(s, 1, Len(s) - 1)) + DigitVal(s[Len(s)])

\* String(n) for n >= 0
RECURSIVE NumStr(_)
NumStr(n) ==
    IF n < 10 THEN <<Digits[n + 1]>>
    ELSE NumStr(n \div 10) \o <<Digits[(n % 10) + 1]>>

\* String(n).padStart(2, '0')
padStart2(n) == IF n < 10 THEN <<"0">> \o NumStr(n) ELSE NumStr(n)

\* String(n).padStart(4, '0'), the year of an ISO date
RECURSIVE padStartTo(_, _)
padStartTo(s, w) == IF Len(s) >= w THEN s ELSE padStartTo(<<"0">> \o s, w)

AllDigits(s) == \A i \in DOMAIN s : IsDigit(s[i])

(***************************************************************************)
(* Timezones.  The runtime's timezone database (Intl) is the environment:  *)
(* UtcOffsetMinutes gives the offset from UTC, in minutes, that it holds   *)
(* for the instants of the model, which all lie in 2025.  An instant is a  *)
(* number of seconds since 1970-01-01T00:00:00Z.                           *)
(***************************************************************************)
TIMEZONES ==
    {"America/Mexico_City", "America/Chihuahua", "America/Tijuana",
     "America/New_York", "America/Los_Angeles", "America/Chicago",
     "Europe/Madrid", "Europe/London"}

\* days from 1970-01-01 to the day d of the month m of 2025
Day2025(m, d) ==
    20089 + d - 1
      + (CASE m = 1 -> 0 [] m = 2 -> 31 [] m = 3 -> 59 [] m = 4 -> 90
           [] m = 5 -> 120 [] m = 6 -> 151 [] m = 7 -> 181 [] m = 8 -> 212
           [] m = 9 -> 243 [] m = 10 -> 273 [] m = 11 -> 304 [] m = 12 -> 334)

\* the offset the zone keeps in winter
StandardOffset(tz) ==
    CASE tz = "America/Mexico_City" -> -360
      [] tz = "America/Chihuahua"   -> -360
      [] tz = "America/Chicago"     -> -360
      [] tz = "America/New_York"    -> -300
      [] tz = "America/Tijuana"     -> -480
      [] tz = "America/Los_Angeles" -> -480
      [] tz = "Europe/Madrid"       -> 60
      [] tz = "Europe/London"       -> 0
      [] tz = "UTC"                 -> 0

\* Daylight saving time in 2025.  United States and Tijuana: from 02:00
\* standard time of 9 March to 02:00 daylight time of 2 November.  Europe:
\* from 01:00 UTC of 30 March to 01:00 UTC of 26 October.  Mexico City and
\* Chihuahua keep standard time all year.
InDaylightTime(tz, t) ==
    IF tz \in {"America/New_York", "America/Chicago", "America/Los_Angeles",
               "America/Tijuana"}
    THEN /\ t >= Day2025(3, 9) * 86400 + (120 - StandardOffset(tz)) * 60
         /\ t <  Day2025(11, 2) * 86400 + (60 - StandardOffset(tz)) * 60
    ELSE IF tz \in {"Europe/Madrid", "Europe/London"}
    THEN /\ t >= Day2025(3, 30) * 86400 + 3600
         /\ t <  Day2025(10, 26) * 86400 + 3600
    ELSE FALSE

UtcOffsetMinutes(tz, t) ==
    StandardOffset(tz) + (IF InDaylightTime(tz, t) THEN 60 ELSE 0)

(***************************************************************************)
(* Dates: new Date(string) and toLocaleString                              *)
(***************************************************************************)
IsLeap(y) == (y % 4 = 0 /\ y % 100 # 0) \/ y % 400 = 0

DaysInMonth(y, m) ==
    IF m = 2 THEN (IF IsLeap(y) THEN 29 ELSE 28)
    ELSE IF m \in {4, 6, 9, 11} THEN 30 ELSE 31

\* days from 1970-01-01 to the civil date y-m-d (proleptic Gregorian)
DaysFromCivil(y, m, d) ==
    LET yy  == IF m <= 2 THEN y - 1 ELSE y
        era == yy \div 400
        yoe == yy - era * 400
        mp  == IF m > 2 THEN m - 3 ELSE m + 9
        doy == (153 * mp + 2) \div 5 + d - 1
        doe == yoe * 365 + yoe \div 4 - yoe \div 100 + doy
    IN  era * 146097 + doe - 719468

\* A Date object: seconds since the epoch, or NaN (Invalid Date)
InvalidDate == [nan |-> TRUE, time |-> 0]

\* YYYY-MM-DDThh:mm:ss at positions 1..19
IsoDateTimePrefix(s) ==
    /\ Len(s) >= 19
    /\ AllDigits(SubSeq(s, 1, 4)) /\ s[5] = "-"
    /\ AllDigits(SubSeq(s, 6, 7)) /\ s[8] = "-"
    /\ AllDigits(SubSeq(s, 9, 10)) /\ s[11] = "T"
    /\ AllDigits(SubSeq(s, 12, 13)) /\ s[14] = ":"
    /\ AllDigits(SubSeq(s, 15, 16)) /\ s[17] = ":"
    /\ AllDigits(SubSeq(s, 18, 19))

\* [+-]hh:mm
IsOffsetStr(s) ==
    /\ Len(s) = 6
    /\ s[1] \in {"+", "-"}
    /\ AllDigits(SubSeq(s, 2, 3)) /\ s[4] = ":"
    /\ AllDigits(SubSeq(s, 5, 6))

\* the regular expression of handleBooking:
\* /^(\d{4}-\d{2}-\d{2})T(\d{2}):(\d{2}):(\d{2})([+-]\d{2}:\d{2})$/
ghlMatch(s) ==
    /\ Len(s) = 25
    /\ IsoDateTimePrefix(s)
    /\ IsOffsetStr(SubSeq(s, 20, 25))

\* new Date(s) for the ISO forms the provider's data takes:
\* YYYY-MM-DDThh:mm:ss followed by Z or by a signed hh:mm offset;
\* every other string of the model is unparseable (NaN)
NewDate(s) ==
    IF ~ IsoDateTimePrefix(s) THEN InvalidDate
    ELSE
      LET y   == parseInt(SubSeq(s, 1, 4))
          mo  == parseInt(SubSeq(s, 6, 7))
          d   == parseInt(SubSeq(s, 9, 10))
          hh  == parseInt(SubSeq(s, 12, 13))
          mi  == parseInt(SubSeq(s, 15, 16))
          ss  == parseInt(SubSeq(s, 18, 19))
          tz  == SubSeq(s, 20, Len(s))
          fieldsOk ==
              /\ mo \in 1..12
              /\ d >= 1 /\ d <= DaysInMonth(y, mo)
              /\ mi <= 59 /\ ss <= 59
              /\ (hh <= 23 \/ (hh = 24 /\ mi = 0 /\ ss = 0))
          local == DaysFromCivil(y, mo, d) * 86400 + hh * 3600 + mi * 60 + ss
      IN  IF ~ fieldsOk THEN InvalidDate
          ELSE IF tz = <<"Z">> THEN [nan |-> FALSE, time |-> local]
          ELSE IF IsOffsetStr(tz)
                  /\ parseInt(SubSeq(tz, 2, 3)) <= 23
                  /\ parseInt(SubSeq(tz, 5, 6)) <= 59
          THEN LET off == parseInt(SubSeq(tz, 2, 3)) * 60 + parseInt(SubSeq(tz, 5, 6))
               IN  [nan |-> FALSE,
                    time |-> IF tz[1] = "-" THEN local + off * 60
                                            ELSE local - off * 60]
          ELSE InvalidDate

InvalidDateStr == <<"I", "n", "v", "a", "l", "i", "d", " ", "D", "a", "t", "e">>

\* the time of day in UTC, whatever the time zone asked for
toLocaleTimeString_Utc(date, timeZone) ==
    IF date.nan THEN InvalidDateStr
    ELSE
      LET tod == date.time % 86400
      IN  padStart2(tod \div 3600) \o <<":">> \o padStart2((tod % 3600) \div 60)
            \o <<":">> \o padStart2(tod % 60)

\* date.toLocaleString('en-US', {timeZone, hour12: false, hour: '2-digit',
\* minute: '2-digit', second: '2-digit'}): the wall-clock time of the
\* instant in the timezone, hours 00..23 (ECMA-402: hour12 false resolves
\* to the 24-hour cycle of the locale, h23 for en-US)
toLocaleTimeString(date, timeZone) ==
    IF date.nan THEN InvalidDateStr
    ELSE
      LET local == date.time + UtcOffsetMinutes(timeZone, date.time) * 60
          tod   == local % 86400
      IN  padStart2(tod \div 3600) \o <<":">> \o padStart2((tod % 3600) \div 60)
            \o <<":">> \o padStart2(tod % 60)

\* Intl.DateTimeFormat('en-US', {timeZone, ..., hour12: false})
\* .formatToParts(date): the parts of type hour and minute, two digits each,
\* of the wall-clock time of the instant in the timezone
formatToParts(date, timeZone) ==
    LET local == date.time + UtcOffsetMinutes(timeZone, date.time) * 60
        tod   == local % 86400
    IN  [hour |-> padStart2(tod \div 3600), minute |-> padStart2((tod % 3600) \div 60)]

\* the difference of the two wall clocks, without the day-boundary steps
getTimezoneOffset_NoDayBoundary(timezone, date) ==
    LET utcParts == formatToParts(date, "UTC")
        tzParts  == formatToParts(date, timezone)
    IN  (parseInt(tzParts.hour) * 60 + parseInt(tzParts.minute))
          - (parseInt(utcParts.hour) * 60 + parseInt(utcParts.minute))

\* getTimezoneOffset(timezone, date): the offset of the timezone from UTC
\* in minutes at the instant date, from the hours and the minutes that the
\* two formatters print
getTimezoneOffset(timezone, date) ==
    LET utcParts   == formatToParts(date, "UTC")
        tzParts    == formatToParts(date, timezone)
        utcHour    == parseInt(utcParts.hour)
        utcMin     == parseInt(utcParts.minute)
        tzHour     == parseInt(tzParts.hour)
        tzMin      == parseInt(tzParts.minute)
        utcMinutes == utcHour * 60 + utcMin
        tzMinutes  == tzHour * 60 + tzMin
        diff       == tzMinutes - utcMinutes
        diff1      == IF diff > 12 * 60 THEN diff - 24 * 60 ELSE diff
        diff2      == IF diff1 < -(12 * 60) THEN diff1 + 24 * 60 ELSE diff1
    IN  diff2

\* s.split(', ')[1] || s
TimePart(s) ==
    LET seps == {i \in 1..(Len(s) - 1) : s[i] = "," /\ s[i + 1] = " "}
    IN  IF seps = {} THEN s
        ELSE LET i    == CHOOSE k \in seps : \A j \in seps : k <= j
                 rest == SubSeq(s, i + 2, Len(s))
                 more == {j \in 1..(Len(rest) - 1) : rest[j] = "," /\ rest[j + 1] = " "}
                 part == IF more = {} THEN rest
                         ELSE SubSeq(rest, 1, (CHOOSE k \in more : \A j \in more : k <= j) - 1)
             IN  IF part = <<>> THEN s ELSE part

\* the TimeSlot built from one timestamp of the slots response
\* (fetchAllAvailableSlots, fetchAvailableSlots)
ToTimeSlot(slotTime, selectedTimezone_) ==
    LET slotDate     == NewDate(slotTime)
        timeInUserTz == toLocaleTimeString(slotDate, selectedTimezone_)
        timePart     == TimePart(timeInUserTz)
    IN  [startTime |-> timePart, endTime |-> timePart, available |-> TRUE,
         originalGHLTime |-> slotTime]

\* daySlots.map(slotTime => ...)
MapSlots(daySlots, selectedTimezone_) ==
    [i \in DOMAIN daySlots |-> ToTimeSlot(daySlots[i], selectedTimezone_)]

(***************************************************************************)
(* The environment: today's date, the provider's slots data, the browser   *)
(***************************************************************************)
\* new Date() at the time of the session
Today == [year |-> 2025, month |-> 11, day |-> 2]

\* `${year}-${month}-${day}` with the padStart of generateCalendarDays
DateString(y, m, d) ==
    padStartTo(NumStr(y), 4) \o <<"-">> \o padStart2(m) \o <<"-">> \o padStart2(d)

DateYear(s) == parseInt(SubSeq(s, 1, 4))
DateMonth(s) == parseInt(SubSeq(s, 6, 7))
DateDay(s) == parseInt(SubSeq(s, 9, 10))

OffsetMexico == <<"-", "0", "6", ":", "0", "0">>

\* a provider timestamp of a date: date T hh:mm:ss offset
Timestamp(date, hh, mi, ss, offsetStr) ==
    date \o <<"T">> \o padStart2(hh) \o <<":">> \o padStart2(mi) \o <<":">>
         \o padStart2(ss) \o offsetStr

\* the date of today, and the two days after it
DayToday == DateString(Today.year, Today.month, Today.day)
DayA == DateString(2025, 11, 3)
DayB == DateString(2025, 11, 4)

\* Bodies of GET /api/calendar/slots (the provider's free-slots answer, which
\* the server passes on as it is): date -> slots.  They hold well-formed
\* timestamps (one of them a late-night slot, one of them of today), a date
\* without slots, a timestamp in the Z form, an empty timestamp, and the
\* empty answer.
RespFull ==
    (DayA :> <<Timestamp(DayA, 16, 0, 0, OffsetMexico),
               Timestamp(DayA, 23, 30, 0, OffsetMexico)>>)
    @@ (DayB :> <<Timestamp(DayB, 17, 0, 0, OffsetMexico)>>)

RespShifted ==
    (DayToday :> <<Timestamp(DayToday, 18, 0, 0, OffsetMexico)>>)
    @@ (DayB :> <<>>)

RespMalformed ==
    (DayB :> <<SubSeq(Timestamp(DayB, 22, 0, 0, OffsetMexico), 1, 19) \o <<"Z">>,
               <<>> >>)

RespEmpty == [d \in {} |-> <<>>]

SlotsResponses == {RespFull, RespShifted, RespMalformed, RespEmpty}

\* every timestamp the slots endpoint can return
ProviderTimestamps ==
    UNION {{r[d][i] : i \in DOMAIN r[d]} : <<r, d>> \in
             {<<r, d>> \in SlotsResponses \X {DayToday, DayA, DayB} : d \in DOMAIN r}}

\* The provider's answers with one slot at any hour of DayA, for the
\* specification that runs the session over the slot times
OffsetNewYork == <<"-", "0", "5", ":", "0", "0">>
OffsetIndia == <<"+", "0", "5", ":", "3", "0">>

SlotTimes ==
    {Timestamp(DayA, hh, mi, ss, off) :
        hh \in 0..23, mi \in {0, 14, 15, 30, 59}, ss \in {0, 59},
        off \in {OffsetMexico, OffsetNewYork, OffsetIndia}}

OneSlotResponses == {(DayA :> <<t>>) : t \in SlotTimes}

\* Intl.DateTimeFormat().resolvedOptions().timeZone of the browser;
\* "throws" stands for a runtime in which the call fails
BrowserTimezones == {"America/New_York", "throws"}

\* the timezones a user picks in the Select
UserTimezones == {"America/Mexico_City", "America/New_York"}

(***************************************************************************)
(* Bounds                                                                  *)
(***************************************************************************)
MaxTzChanges == 1
MaxNavDistance == 1

(***************************************************************************)
(* State                                                                   *)
(***************************************************************************)
VARIABLES
    selectedDate,      \* useState(''): a date string, <<>> when empty
    selectedTime,      \* useState(''): a display time, <<>> when empty
    availableSlots,    \* useState([]): the slots shown, a sequence of TimeSlot
    allSlots,          \* useState({}): the cache, date -> sequence of TimeSlot
    loading,           \* a single-date fetch is loading
    initialLoading,    \* the bulk fetch is loading
    booking,           \* a booking is being submitted
    booked,            \* the booking succeeded
    selectedTimezone,  \* useState(''): the viewer timezone
    currentMonth,      \* the month shown, [year, month, day]
    bulkFetches,       \* calls of fetchAllAvailableSlots awaiting their response (a bag)
    dateFetches,       \* calls of fetchAvailableSlots awaiting their response
    appointmentCalls,  \* calls of handleBooking awaiting POST /api/calendar/appointment
    contactTags,       \* the contact's tags at the provider
    webhooksDelivered, \* the contacts whose survey reached the n8n webhook
    nTzChanges,        \* timezone changes made by the user
    offsetCall,        \* the arguments of getTimezoneOffset and the values its calls returned
    rangeCall,         \* the clock and the zone of a browser and the range its bulk fetch asks for
    slotLabel,         \* a display start time and the end of the slot as the page shows it
    formData,          \* TicketForm: useState<TicketFormData>
    isConfirmationOpen, \* TicketForm: useState(false), the confirmation modal is open
    ticketCalls,       \* the exchanges of POST /api/tickets, in the order of their sending
    ticketWebhooks,    \* the json items the tickets endpoint posted to the n8n webhook
    lastEvent          \* the operation the last step carried out

vars ==
    <<selectedDate, selectedTime, availableSlots, allSlots, loading, initialLoading,
      booking, booked, selectedTimezone, currentMonth, bulkFetches, dateFetches,
      appointmentCalls, contactTags, webhooksDelivered, nTzChanges,
      offsetCall, rangeCall, slotLabel,
      formData, isConfirmationOpen, ticketCalls, ticketWebhooks,
      lastEvent>>

clientVars ==
    <<selectedDate, selectedTime, availableSlots, allSlots, loading, initialLoading,
      booking, booked, selectedTimezone, currentMonth, bulkFetches, dateFetches>>

serverVars == <<contactTags, webhooksDelivered>>

ticketVars == <<formData, isConfirmationOpen, ticketCalls, ticketWebhooks>>

EmptyMap == [d \in {} |-> <<>>]

RemoveAt(seq, i) == SubSeq(seq, 1, i - 1) \o SubSeq(seq, i + 1, Len(seq))

Event(kind, info) == [kind |-> kind, info |-> info]

\* TicketForm: the initial formData, and the value onSuccess resets it to;
\* telefonoContacto is a sequence of characters, <<>> when empty; the user
\* of the model attaches no file
EmptyForm ==
    [categoria        |-> "",
     clienteId        |-> "",
     clienteNombre    |-> "",
     telefonoContacto |-> <<>>,
     descripcion      |-> "",
     prioridad        |-> "",
     attachments      |-> <<>>]

\* getTimezoneOffset has not been called
NoOffsetCall == [timezone |-> "", date |-> InvalidDate, returned |-> <<>>]

\* fetchAllAvailableSlots has not computed a range
NoRangeCall ==
    [browserTz |-> "", now |-> [s |-> 0, ms |-> 0],
     startTimestamp |-> [s |-> 0, ms |-> 0], endTimestamp |-> [s |-> 0, ms |-> 0],
     computed |-> FALSE]

\* no slot has been rendered
NoSlotLabel == [startTime |-> <<>>, endTime |-> <<>>, display |-> <<>>, rendered |-> FALSE]

\* the state after construction at the moment now (useState(new Date()))
InitAt(now) ==
    /\ selectedDate = <<>>
    /\ selectedTime = <<>>
    /\ availableSlots = <<>>
    /\ allSlots = EmptyMap
    /\ loading = FALSE
    /\ initialLoading = TRUE
    /\ booking = FALSE
    /\ booked = FALSE
    /\ selectedTimezone = ""
    /\ currentMonth = now
    /\ bulkFetches = EmptyBag
    /\ dateFetches = EmptyBag
    /\ appointmentCalls = <<>>
    /\ contactTags = {"survey_pending"}
    /\ webhooksDelivered = {}
    /\ nTzChanges = 0
    /\ formData = EmptyForm
    /\ isConfirmationOpen = FALSE
    /\ ticketCalls = <<>>
    /\ ticketWebhooks = <<>>
    /\ lastEvent = Event("init", "")

Init ==
    /\ InitAt(Today)
    /\ offsetCall = NoOffsetCall
    /\ rangeCall = NoRangeCall
    /\ slotLabel = NoSlotLabel

(***************************************************************************)
(* Timezone detection at mount                                             *)
(***************************************************************************)
TZ_ALIASES(browserTz) ==
    IF browserTz = "America/Santa_Isabel" THEN "America/Tijuana" ELSE browserTz

\* the characters of the timezone names of the model and of the cues the
\* detection looks for
TzChars(name) ==
    CASE name = "America/Mexico_City" ->
           <<"A", "m", "e", "r", "i", "c", "a", "/", "M", "e", "x", "i", "c", "o", "_", "C", "i", "t", "y">>
      [] name = "America/Chihuahua" ->
           <<"A", "m", "e", "r", "i", "c", "a", "/", "C", "h", "i", "h", "u", "a", "h", "u", "a">>
      [] name = "America/Tijuana" ->
           <<"A", "m", "e", "r", "i", "c", "a", "/", "T", "i", "j", "u", "a", "n", "a">>
      [] name = "America/New_York" ->
           <<"A", "m", "e", "r", "i", "c", "a", "/", "N", "e", "w", "_", "Y", "o", "r", "k">>
      [] name = "America/Los_Angeles" ->
           <<"A", "m", "e", "r", "i", "c", "a", "/", "L", "o", "s", "_", "A", "n", "g", "e", "l", "e", "s">>
      [] name = "America/Chicago" ->
           <<"A", "m", "e", "r", "i", "c", "a", "/", "C", "h", "i", "c", "a", "g", "o">>
      [] name = "Europe/Madrid" ->
           <<"E", "u", "r", "o", "p", "e", "/", "M", "a", "d", "r", "i", "d">>
      [] name = "Europe/London" ->
           <<"E", "u", "r", "o", "p", "e", "/", "L", "o", "n", "d", "o", "n">>
      [] name = "America/Santa_Isabel" ->
           <<"A", "m", "e", "r", "i", "c", "a", "/", "S", "a", "n", "t", "a", "_", "I", "s", "a", "b", "e", "l">>
      [] name = "America/Vancouver" ->
           <<"A", "m", "e", "r", "i", "c", "a", "/", "V", "a", "n", "c", "o", "u", "v", "e", "r">>
      [] name = "America/Phoenix" ->
           <<"A", "m", "e", "r", "i", "c", "a", "/", "P", "h", "o", "e", "n", "i", "x">>
      [] name = "America/Guatemala" ->
           <<"A", "m", "e", "r", "i", "c", "a", "/", "G", "u", "a", "t", "e", "m", "a", "l", "a">>
      [] name = "America/Belize" ->
           <<"A", "m", "e", "r", "i", "c", "a", "/", "B", "e", "l", "i", "z", "e">>
      [] name = "Mexico/General" ->
           <<"M", "e", "x", "i", "c", "o", "/", "G", "e", "n", "e", "r", "a", "l">>
      [] name = "America/Bahia_Banderas" ->
           <<"A", "m", "e", "r", "i", "c", "a", "/", "B", "a", "h", "i", "a", "_", "B", "a", "n", "d", "e", "r", "a", "s">>
      [] name = "America/Indiana/Indianapolis" ->
           <<"A", "m", "e", "r", "i", "c", "a", "/", "I", "n", "d", "i", "a", "n", "a", "/", "I", "n", "d", "i", "a", "n", "a", "p", "o", "l", "i", "s">>
      [] name = "Asia/Kolkata" ->
           <<"A", "s", "i", "a", "/", "K", "o", "l", "k", "a", "t", "a">>
      [] name = "Europe/Paris" ->
           <<"E", "u", "r", "o", "p", "e", "/", "P", "a", "r", "i", "s">>
      [] name = "UTC" ->
           <<"U", "T", "C">>
      [] name = "Tijuana" ->
           <<"T", "i", "j", "u", "a", "n", "a">>
      [] name = "Los_Angeles" ->
           <<"L", "o", "s", "_", "A", "n", "g", "e", "l", "e", "s">>
      [] name = "Vancouver" ->
           <<"V", "a", "n", "c", "o", "u", "v", "e", "r">>
      [] name = "Phoenix" ->
           <<"P", "h", "o", "e", "n", "i", "x">>
      [] name = "Mexico" ->
           <<"M", "e", "x", "i", "c", "o">>
      [] name = "Mexico_City" ->
           <<"M", "e", "x", "i", "c", "o", "_", "C", "i", "t", "y">>
      [] name = "Guatemala" ->
           <<"G", "u", "a", "t", "e", "m", "a", "l", "a">>
      [] name = "Belize" ->
           <<"B", "e", "l", "i", "z", "e">>
      [] name = "Chicago" ->
           <<"C", "h", "i", "c", "a", "g", "o">>

\* haystack.includes(needle), on sequences of characters
SeqIncludes(haystack, needle) ==
    \E k \in 0..(Len(haystack) - Len(needle)) :
        SubSeq(haystack, k + 1, k + Len(needle)) = needle

\* normalizedTz.includes(part)
TzIncludes(normalizedTz, part) == SeqIncludes(TzChars(normalizedTz), TzChars(part))

\* the detection with a list of aliases that is empty
DetectTimezone_NoAlias(browserTz) ==
    LET normalizedTz == browserTz
    IN  IF browserTz = "throws" THEN "America/Mexico_City"
        ELSE IF normalizedTz \in TIMEZONES THEN normalizedTz
        ELSE IF TzIncludes(normalizedTz, "Tijuana") THEN "America/Tijuana"
        ELSE IF \/ TzIncludes(normalizedTz, "Los_Angeles")
                \/ TzIncludes(normalizedTz, "Vancouver")
                \/ TzIncludes(normalizedTz, "Phoenix") THEN "America/Los_Angeles"
        ELSE IF \/ TzIncludes(normalizedTz, "Mexico")
                \/ TzIncludes(normalizedTz, "Mexico_City")
                \/ TzIncludes(normalizedTz, "Guatemala")
                \/ TzIncludes(normalizedTz, "Belize")
                \/ TzIncludes(normalizedTz, "Chicago") THEN "America/Mexico_City"
        ELSE "America/Mexico_City"

\* the detection effect: the timezone it sets for the runtime timezone
\* browserTz; "throws" takes the catch
DetectTimezone(browserTz) ==
    LET normalizedTz == TZ_ALIASES(browserTz)
    IN  IF browserTz = "throws" THEN "America/Mexico_City"
        ELSE IF normalizedTz \in TIMEZONES THEN normalizedTz
        ELSE IF TzIncludes(normalizedTz, "Tijuana") THEN "America/Tijuana"
        ELSE IF \/ TzIncludes(normalizedTz, "Los_Angeles")
                \/ TzIncludes(normalizedTz, "Vancouver")
                \/ TzIncludes(normalizedTz, "Phoenix") THEN "America/Los_Angeles"
        ELSE IF \/ TzIncludes(normalizedTz, "Mexico")
                \/ TzIncludes(normalizedTz, "Mexico_City")
                \/ TzIncludes(normalizedTz, "Guatemala")
                \/ TzIncludes(normalizedTz, "Belize")
                \/ TzIncludes(normalizedTz, "Chicago") THEN "America/Mexico_City"
        ELSE "America/Mexico_City"

(***************************************************************************)
(* The two effects                                                         *)
(***************************************************************************)
\* A call of fetchAllAvailableSlots or fetchAvailableSlots keeps, while it
\* awaits the response, the constants of the render it was made in:
\* tzAtStart, and the selectedTimezone of that render, which it reads again
\* after the await.  change numbers the timezone change the render follows
\* (0 is the mount), which tells the calls of different renders apart.
FetchClosure(date, tz, change) ==
    [date |-> date, tzAtStart |-> tz, selectedTimezone |-> tz, change |-> change]

\* useEffect(..., [selectedTimezone]) for the new timezone tz: clears the
\* state when the cache holds something and starts the bulk fetch
TimezoneEffect(tz, change) ==
    LET hasExistingSlots == DOMAIN allSlots # {}
    IN  /\ allSlots' = IF hasExistingSlots THEN EmptyMap ELSE allSlots
        /\ availableSlots' = IF hasExistingSlots THEN <<>> ELSE availableSlots
        /\ selectedDate' = IF hasExistingSlots THEN <<>> ELSE selectedDate
        /\ selectedTime' = IF hasExistingSlots THEN <<>> ELSE selectedTime
        /\ initialLoading' = TRUE
        /\ bulkFetches' = bulkFetches (+) SetToBag({FetchClosure(<<>>, tz, change)})

\* the date effect that takes a cached date without slots for an absent one
DateEffect_EmptyIsAbsent(date, cache, slots) ==
    IF date # <<>> /\ date \in DOMAIN cache /\ Len(cache[date]) > 0
    THEN /\ availableSlots' = cache[date]
         /\ UNCHANGED <<loading, dateFetches>>
    ELSE IF date # <<>>
    THEN /\ availableSlots' = slots
         /\ loading' = TRUE
         /\ dateFetches' =
              dateFetches (+) SetToBag({FetchClosure(date, selectedTimezone, nTzChanges)})
    ELSE /\ availableSlots' = slots
         /\ UNCHANGED <<loading, dateFetches>>

\* useEffect(..., [selectedDate, allSlots]) run with the date and the cache
\* of the new render: serves the date from the cache or starts the
\* single-date fetch
DateEffect(date, cache, slots) ==
    IF date # <<>> /\ date \in DOMAIN cache
    THEN /\ availableSlots' = cache[date]
         /\ UNCHANGED <<loading, dateFetches>>
    ELSE IF date # <<>>
    THEN /\ availableSlots' = slots
         /\ loading' = TRUE
         /\ dateFetches' =
              dateFetches (+) SetToBag({FetchClosure(date, selectedTimezone, nTzChanges)})
    ELSE /\ availableSlots' = slots
         /\ UNCHANGED <<loading, dateFetches>>

(***************************************************************************)
(* Mount and timezone change                                               *)
(***************************************************************************)
\* the detection effect sets the timezone, and the timezone effect follows
Mount(browserTz) ==
    /\ selectedTimezone = ""
    /\ selectedTimezone' = DetectTimezone(browserTz)
    /\ TimezoneEffect(selectedTimezone', 0)
    /\ lastEvent' = [kind |-> "mount", info |-> selectedTimezone', browserTz |-> browserTz]
    /\ UNCHANGED <<loading, booking, booked, currentMonth, dateFetches,
                   appointmentCalls, nTzChanges>>
    /\ UNCHANGED serverVars
    /\ UNCHANGED <<offsetCall, rangeCall, slotLabel, ticketVars>>

\* the changes of the timezone the model lets the user make
CanChangeTimezone(changes) == nTzChanges < changes

\* <Select onValueChange={setSelectedTimezone}>, then the timezone effect
ChangeTimezone(tz) ==
    /\ ~ booked
    /\ selectedTimezone # ""
    /\ tz # selectedTimezone
    /\ nTzChanges' = nTzChanges + 1
    /\ selectedTimezone' = tz
    /\ TimezoneEffect(tz, nTzChanges')
    /\ lastEvent' = Event("changeTimezone", tz)
    /\ UNCHANGED <<loading, booking, booked, currentMonth, dateFetches,
                   appointmentCalls>>
    /\ UNCHANGED serverVars
    /\ UNCHANGED <<offsetCall, rangeCall, slotLabel, ticketVars>>

(***************************************************************************)
(* fetchAllAvailableSlots, after the await                                 *)
(***************************************************************************)
\* if (tzAtStart !== selectedTimezone) return;  both are constants of the
\* render the call was made in
TimezoneChangedWhileFetching(call) == call.tzAtStart # call.selectedTimezone

\* Object.keys(data).forEach(dateKey => slotsMap[dateKey] = ...)
SlotsMap(data, tz) == [dateKey \in DOMAIN data |-> MapSlots(data[dateKey], tz)]

\* the response is written over the cache, whose other dates stay
BulkFetchOk_Merging(call, data) ==
        /\ BagIn(call, bulkFetches)
        /\ bulkFetches' = bulkFetches (-) SetToBag({call})
        /\ initialLoading' = FALSE
        /\ lastEvent' = [kind |-> "bulkOk", info |-> call.tzAtStart, data |-> data]
        /\ IF TimezoneChangedWhileFetching(call)
           THEN UNCHANGED <<allSlots, availableSlots, loading, dateFetches>>
           ELSE /\ allSlots' = SlotsMap(data, call.selectedTimezone) @@ allSlots
                /\ DateEffect(selectedDate, allSlots', availableSlots)
        /\ UNCHANGED <<selectedDate, selectedTime, booking, booked, selectedTimezone,
                       currentMonth, appointmentCalls, nTzChanges>>
        /\ UNCHANGED serverVars
        /\ UNCHANGED <<offsetCall, rangeCall, slotLabel, ticketVars>>

\* The response of a bulk fetch is ok: the guard, the conversion of every
\* date of data, setAllSlots(slotsMap), finally.  The event keeps data.
BulkFetchOk(call, data) ==
        /\ BagIn(call, bulkFetches)
        /\ bulkFetches' = bulkFetches (-) SetToBag({call})
        /\ initialLoading' = FALSE
        /\ lastEvent' = [kind |-> "bulkOk", info |-> call.tzAtStart, data |-> data]
        /\ IF TimezoneChangedWhileFetching(call)
           THEN UNCHANGED <<allSlots, availableSlots, loading, dateFetches>>
           ELSE /\ allSlots' = SlotsMap(data, call.selectedTimezone)
                /\ DateEffect(selectedDate, allSlots', availableSlots)
        /\ UNCHANGED <<selectedDate, selectedTime, booking, booked, selectedTimezone,
                       currentMonth, appointmentCalls, nTzChanges>>
        /\ UNCHANGED serverVars
        /\ UNCHANGED <<offsetCall, rangeCall, slotLabel, ticketVars>>

\* a failed bulk fetch that empties the cache
BulkFetchFail_ClearsCache(call) ==
    /\ BagIn(call, bulkFetches)
    /\ bulkFetches' = bulkFetches (-) SetToBag({call})
    /\ initialLoading' = FALSE
    /\ allSlots' = EmptyMap
    /\ lastEvent' = Event("bulkFail", "")
    /\ UNCHANGED <<selectedDate, selectedTime, availableSlots, loading,
                   booking, booked, selectedTimezone, currentMonth, dateFetches,
                   appointmentCalls, nTzChanges>>
    /\ UNCHANGED serverVars
    /\ UNCHANGED <<offsetCall, rangeCall, slotLabel, ticketVars>>

\* !response.ok or a rejected fetch: toast, finally
BulkFetchFail(call) ==
    /\ BagIn(call, bulkFetches)
    /\ bulkFetches' = bulkFetches (-) SetToBag({call})
    /\ initialLoading' = FALSE
    /\ lastEvent' = Event("bulkFail", "")
    /\ UNCHANGED <<selectedDate, selectedTime, availableSlots, allSlots, loading,
                   booking, booked, selectedTimezone, currentMonth, dateFetches,
                   appointmentCalls, nTzChanges>>
    /\ UNCHANGED serverVars
    /\ UNCHANGED <<offsetCall, rangeCall, slotLabel, ticketVars>>

(***************************************************************************)
(* fetchAvailableSlots, after the await                                    *)
(***************************************************************************)
DateFetchOk(call, data) ==
    LET daySlots == IF call.date \in DOMAIN data THEN data[call.date] ELSE <<>>
    IN  /\ BagIn(call, dateFetches)
        /\ dateFetches' = dateFetches (-) SetToBag({call})
        /\ loading' = FALSE
        /\ lastEvent' = Event("dateOk", call.tzAtStart)
        /\ availableSlots' =
              IF TimezoneChangedWhileFetching(call) THEN availableSlots
              ELSE MapSlots(daySlots, call.selectedTimezone)
        /\ UNCHANGED <<selectedDate, selectedTime, allSlots, initialLoading, booking,
                       booked, selectedTimezone, currentMonth, bulkFetches,
                       appointmentCalls, nTzChanges>>
        /\ UNCHANGED serverVars
        /\ UNCHANGED <<offsetCall, rangeCall, slotLabel, ticketVars>>

DateFetchFail(call) ==
    /\ BagIn(call, dateFetches)
    /\ dateFetches' = dateFetches (-) SetToBag({call})
    /\ loading' = FALSE
    /\ availableSlots' = <<>>
    /\ lastEvent' = Event("dateFail", "")
    /\ UNCHANGED <<selectedDate, selectedTime, allSlots, initialLoading, booking,
                   booked, selectedTimezone, currentMonth, bulkFetches,
                   appointmentCalls, nTzChanges>>
    /\ UNCHANGED serverVars
    /\ UNCHANGED <<offsetCall, rangeCall, slotLabel, ticketVars>>

(***************************************************************************)
(* The calendar: date, time and month                                      *)
(***************************************************************************)
DateDays(s) == DaysFromCivil(DateYear(s), DateMonth(s), DateDay(s))

\* date < today, date being the midnight of the day and today the present
isPast(date) == DateDays(date) <= DaysFromCivil(Today.year, Today.month, Today.day)

hasSlots(date) == date \in DOMAIN allSlots /\ Len(allSlots[date]) > 0

\* the 42 days of generateCalendarDays, from the Sunday before the 1st
InCalendarDays(date) ==
    LET firstDay  == DaysFromCivil(currentMonth.year, currentMonth.month, 1)
        startDate == firstDay - ((firstDay + 4) % 7)
    IN  DateDays(date) >= startDate /\ DateDays(date) < startDate + 42

\* the button of a day of the calendar: isDisabled
isDisabled(date) == isPast(date) \/ (~ hasSlots(date) /\ ~ isPast(date))

\* a day the user can click: in the grid and its button enabled
DateSelectable(date) == ~ booked /\ InCalendarDays(date) /\ ~ isDisabled(date)

handleDateSelect(date) ==
    /\ DateSelectable(date)
    /\ selectedDate' = date
    /\ selectedTime' = <<>>
    /\ IF date # selectedDate
       THEN DateEffect(date, allSlots, availableSlots)
       ELSE UNCHANGED <<availableSlots, loading, dateFetches>>
    /\ lastEvent' = Event("dateSelect", "")
    /\ UNCHANGED <<allSlots, initialLoading, booking, booked, selectedTimezone,
                   currentMonth, bulkFetches, appointmentCalls, nTzChanges>>
    /\ UNCHANGED serverVars
    /\ UNCHANGED <<offsetCall, rangeCall, slotLabel, ticketVars>>

handleTimeSelect(i) ==
    /\ ~ booked
    /\ selectedDate # <<>>
    /\ ~ loading
    /\ i \in DOMAIN availableSlots
    /\ availableSlots[i].available
    /\ selectedTime' = availableSlots[i].startTime
    /\ lastEvent' = Event("timeSelect", "")
    /\ UNCHANGED <<selectedDate, availableSlots, allSlots, loading, initialLoading,
                   booking, booked, selectedTimezone, currentMonth, bulkFetches,
                   dateFetches, appointmentCalls, nTzChanges>>
    /\ UNCHANGED serverVars
    /\ UNCHANGED <<offsetCall, rangeCall, slotLabel, ticketVars>>

\* new Date(year, monthIndex, day) of the fields a setter leaves: a month
\* index outside 0..11 carries into the year, a day past the end of the
\* month carries into the next month
MakeDate(year, monthIndex, day) ==
    LET y   == year + (monthIndex \div 12)
        m   == (monthIndex % 12) + 1
        dim == DaysInMonth(y, m)
    IN  IF day <= dim THEN [year |-> y, month |-> m, day |-> day]
        ELSE IF m = 12 THEN [year |-> y + 1, month |-> 1, day |-> day - dim]
        ELSE [year |-> y, month |-> m + 1, day |-> day - dim]

\* date.setDate(day), day within the month
setDate(date, day) == [date EXCEPT !.day = day]

\* date.setMonth(monthIndex)
setMonth(date, monthIndex) == MakeDate(date.year, monthIndex, date.day)

\* the month moved without newMonth.setDate(1)
NewMonth_KeepsDay(month, delta) == setMonth(month, (month.month - 1) + delta)

\* newMonth.setDate(1); newMonth.setMonth(newMonth.getMonth() + delta)
NewMonth(month, delta) == setMonth(setDate(month, 1), (month.month - 1) + delta)

\* d.startsWith(monthPrefix)
startsWith(d, prefix) == Len(d) >= Len(prefix) /\ SubSeq(d, 1, Len(prefix)) = prefix

MonthDistance(month) ==
    (month.year * 12 + month.month) - (Today.year * 12 + Today.month)

\* the code unit of a character of a date key: '-' sorts before the digits
CharCode(c) == IF IsDigit(c) THEN 48 + DigitVal(c) ELSE 45

\* a < b in the order of Array.prototype.sort() without a comparator (by
\* code units, a proper prefix first)
RECURSIVE StrLess(_, _)
StrLess(a, b) ==
    IF b = <<>> THEN FALSE
    ELSE IF a = <<>> THEN TRUE
    ELSE IF a[1] # b[1] THEN CharCode(a[1]) < CharCode(b[1])
    ELSE StrLess(Tail(a), Tail(b))

\* the last of the keys, for a list sorted the other way round
LastSorted(keys) == CHOOSE d \in keys : \A e \in keys : e = d \/ StrLess(e, d)

\* keys.sort()[0]
FirstSorted(keys) == CHOOSE d \in keys : \A e \in keys : e = d \/ StrLess(d, e)

\* the months the model lets the user reach: from the month of today on
InNavRange(direction) ==
    MonthDistance(NewMonth(currentMonth, IF direction = "prev" THEN -1 ELSE 1))
        \in 0..MaxNavDistance

navigateMonth(direction) ==
    LET newMonth    == NewMonth(currentMonth, IF direction = "prev" THEN -1 ELSE 1)
        monthPrefix == padStartTo(NumStr(newMonth.year), 4) \o <<"-">>
                         \o padStart2(newMonth.month) \o <<"-">>
        candidateDates ==
            {d \in DOMAIN allSlots : startsWith(d, monthPrefix) /\ Len(allSlots[d]) > 0}
        \* candidateDates.sort()[0]
        firstDate == FirstSorted(candidateDates)
        date == IF candidateDates # {} THEN firstDate ELSE <<>>
    IN  /\ ~ booked
        /\ currentMonth' = newMonth
        /\ selectedDate' = date
        /\ IF date # <<>> /\ date # selectedDate
           THEN DateEffect(date, allSlots, allSlots[date])
           ELSE /\ availableSlots' = IF date # <<>> THEN allSlots[date] ELSE <<>>
                /\ UNCHANGED <<loading, dateFetches>>
        /\ lastEvent' = Event("navigate", direction)
        /\ UNCHANGED <<selectedTime, allSlots, initialLoading, booking, booked,
                       selectedTimezone, bulkFetches, appointmentCalls, nTzChanges>>
        /\ UNCHANGED serverVars
        /\ UNCHANGED <<offsetCall, rangeCall, slotLabel, ticketVars>>

(***************************************************************************)
(* handleBooking                                                           *)
(***************************************************************************)
\* availableSlots.find(slot => slot.startTime === selectedTime): the index
\* of the first such slot, 0 when there is none (undefined)
FindSlot(slots, time) ==
    IF \E i \in DOMAIN slots : slots[i].startTime = time
    THEN CHOOSE i \in DOMAIN slots :
            /\ slots[i].startTime = time
            /\ \A j \in DOMAIN slots : slots[j].startTime = time => i <= j
    ELSE 0

\* an appointment of one hour
BookingEndTime_OneHour(ghlStartTime) ==
    LET endMinutes == parseInt(SubSeq(ghlStartTime, 12, 13)) * 60
                        + parseInt(SubSeq(ghlStartTime, 15, 16)) + 60
    IN  SubSeq(ghlStartTime, 1, 10) \o <<"T">> \o padStart2((endMinutes \div 60) % 24)
          \o <<":">> \o padStart2(endMinutes % 60) \o <<":">>
          \o SubSeq(ghlStartTime, 18, 19) \o SubSeq(ghlStartTime, 20, 25)

\* the end of the appointment, 45 minutes after the start, put together from
\* the captures of the regular expression
BookingEndTime(ghlStartTime) ==
    LET ghlDate      == SubSeq(ghlStartTime, 1, 10)
        ghlHour      == SubSeq(ghlStartTime, 12, 13)
        ghlMin       == SubSeq(ghlStartTime, 15, 16)
        ghlSec       == SubSeq(ghlStartTime, 18, 19)
        ghlOffsetStr == SubSeq(ghlStartTime, 20, 25)
        startMinutes == parseInt(ghlHour) * 60 + parseInt(ghlMin)
        endMinutes   == startMinutes + 45
        endHours     == endMinutes \div 60
        endMins      == endMinutes % 60
        endHourStr   == padStart2(endHours % 24)
        endMinStr    == padStart2(endMins)
    IN  ghlDate \o <<"T">> \o endHourStr \o <<":">> \o endMinStr \o <<":">>
          \o ghlSec \o ghlOffsetStr

\* the start put together again from the display time in the viewer time zone
BookingStartTime_FromDisplay(selectedSlot) ==
    SubSeq(selectedSlot.originalGHLTime, 1, 11) \o selectedSlot.startTime
        \o SubSeq(selectedSlot.originalGHLTime, 20, 25)

\* const startTime = ghlStartTime
BookingStartTime(selectedSlot) == selectedSlot.originalGHLTime

\* the attempt without the check of contactId
BookingCheck_AnyContact(contactId, slots, time) ==
    LET k == FindSlot(slots, time)
    IN  IF k = 0 \/ slots[k].originalGHLTime = <<>> THEN "noSlot"
        ELSE IF ~ ghlMatch(slots[k].originalGHLTime) THEN "badFormat"
        ELSE "send"

\* what the attempt comes to before the request: the error it throws, or "send"
BookingCheck(contactId, slots, time) ==
    LET k == FindSlot(slots, time)
    IN  IF contactId = "" THEN "noContact"
        ELSE IF k = 0 \/ slots[k].originalGHLTime = <<>> THEN "noSlot"
        ELSE IF ~ ghlMatch(slots[k].originalGHLTime) THEN "badFormat"
        ELSE IF \/ NewDate(BookingStartTime(slots[k])).nan
                \/ NewDate(BookingEndTime(BookingStartTime(slots[k]))).nan
             THEN "invalidDate"
        ELSE "send"

requestData(contactId, selectedSlot, surveyData) ==
    [contactId   |-> contactId,
     startTime   |-> BookingStartTime(selectedSlot),
     endTime     |-> BookingEndTime(BookingStartTime(selectedSlot)),
     title       |-> "Kickoff - businessName",
     description |-> "Videollamada de kickoff",
     surveyData  |-> surveyData]

\* the props the parent passes: contactId and surveyData
ContactIds == {"", "contact-1"}

\* the confirm handler reachable from the booked view too
handleBooking_WhenBooked(contactId, surveyData) ==
    /\ selectedDate # <<>> /\ selectedTime # <<>>
    /\ ~ booking
    /\ BookingCheck(contactId, availableSlots, selectedTime) = "send"
    /\ booking' = TRUE
    /\ appointmentCalls' =
          Append(appointmentCalls,
                 [state |-> "sent",
                  body  |-> requestData(contactId,
                                        availableSlots[FindSlot(availableSlots, selectedTime)],
                                        surveyData),
                  ghlPayload |-> <<>>, calls |-> <<>>])
    /\ lastEvent' = Event("bookingSent", "")
    /\ UNCHANGED <<selectedDate, selectedTime, availableSlots, allSlots, loading,
                   initialLoading, booked, selectedTimezone, currentMonth,
                   bulkFetches, dateFetches, nTzChanges>>
    /\ UNCHANGED serverVars
    /\ UNCHANGED <<offsetCall, rangeCall, slotLabel, ticketVars>>

handleBooking(contactId, surveyData) ==
    LET check == BookingCheck(contactId, availableSlots, selectedTime)
        selectedSlot == availableSlots[FindSlot(availableSlots, selectedTime)]
    IN  /\ ~ booked
        /\ selectedDate # <<>> /\ selectedTime # <<>>
        /\ ~ booking
        /\ IF check = "send"
           THEN /\ booking' = TRUE
                /\ appointmentCalls' =
                      Append(appointmentCalls,
                             [state |-> "sent",
                              body  |-> requestData(contactId, selectedSlot, surveyData),
                              ghlPayload |-> <<>>, calls |-> <<>>])
                /\ lastEvent' = Event("bookingSent", "")
           ELSE \* setBooking(true), throw, catch, finally setBooking(false)
                /\ booking' = FALSE
                /\ UNCHANGED appointmentCalls
                /\ lastEvent' = Event("bookingRejected", check)
        /\ UNCHANGED <<selectedDate, selectedTime, availableSlots, allSlots, loading,
                       initialLoading, booked, selectedTimezone, currentMonth,
                       bulkFetches, dateFetches, nTzChanges>>
        /\ UNCHANGED serverVars
        /\ UNCHANGED <<offsetCall, rangeCall, slotLabel, ticketVars>>

\* response.ok: setBooked(true), finally setBooking(false)
BookingResponseOk(i) ==
    /\ appointmentCalls[i].state = "ok"
    /\ appointmentCalls' = RemoveAt(appointmentCalls, i)
    /\ booked' = TRUE
    /\ booking' = FALSE
    /\ lastEvent' = Event("bookingOk", "")
    /\ UNCHANGED <<selectedDate, selectedTime, availableSlots, allSlots, loading,
                   initialLoading, selectedTimezone, currentMonth, bulkFetches,
                   dateFetches, nTzChanges>>
    /\ UNCHANGED serverVars
    /\ UNCHANGED <<offsetCall, rangeCall, slotLabel, ticketVars>>

\* a refused appointment that leaves the in-flight flag set
BookingResponseNotOk_StillBooking(i) ==
    /\ appointmentCalls[i].state \in {"400", "500"}
    /\ appointmentCalls' = RemoveAt(appointmentCalls, i)
    /\ booking' = TRUE
    /\ lastEvent' = Event("bookingNotOk", appointmentCalls[i].state)
    /\ UNCHANGED <<selectedDate, selectedTime, availableSlots, allSlots, loading,
                   initialLoading, booked, selectedTimezone, currentMonth, bulkFetches,
                   dateFetches, nTzChanges>>
    /\ UNCHANGED serverVars
    /\ UNCHANGED <<offsetCall, rangeCall, slotLabel, ticketVars>>

\* !response.ok: throw, catch, finally setBooking(false)
BookingResponseNotOk(i) ==
    /\ appointmentCalls[i].state \in {"400", "500"}
    /\ appointmentCalls' = RemoveAt(appointmentCalls, i)
    /\ booking' = FALSE
    /\ lastEvent' = Event("bookingNotOk", appointmentCalls[i].state)
    /\ UNCHANGED <<selectedDate, selectedTime, availableSlots, allSlots, loading,
                   initialLoading, booked, selectedTimezone, currentMonth, bulkFetches,
                   dateFetches, nTzChanges>>
    /\ UNCHANGED serverVars
    /\ UNCHANGED <<offsetCall, rangeCall, slotLabel, ticketVars>>

\* fetch rejects (the request or its response is lost on the way): catch,
\* finally
BookingNetworkError(i) ==
    /\ i \in DOMAIN appointmentCalls
    /\ appointmentCalls' = RemoveAt(appointmentCalls, i)
    /\ booking' = FALSE
    /\ lastEvent' = Event("bookingNetworkError", "")
    /\ UNCHANGED <<selectedDate, selectedTime, availableSlots, allSlots, loading,
                   initialLoading, booked, selectedTimezone, currentMonth, bulkFetches,
                   dateFetches, nTzChanges>>
    /\ UNCHANGED serverVars
    /\ UNCHANGED <<offsetCall, rangeCall, slotLabel, ticketVars>>

(***************************************************************************)
(* POST /api/calendar/appointment and GHLService.createAppointment         *)
(***************************************************************************)
\* the payload createAppointment posts to the provider
AppointmentPayload(appointmentData) ==
    [title     |-> appointmentData.title,
     contactId |-> appointmentData.contactId,
     startTime |-> appointmentData.startTime,
     endTime   |-> appointmentData.endTime]

\* if (!contactId || !startTime || !endTime || !title)
MissingFields(body) ==
    body.contactId = "" \/ body.startTime = <<>> \/ body.endTime = <<>> \/ body.title = ""

\* the tag calls made without their try/catch order: both, whatever the first gave
TagCalls_AddAfterFailure(removed) == <<"removeTags", "addTags">>

\* try { await removeTagsFromContact(..); await addTagsToContact(..) }: the
\* calls made, removed being the outcome of the first
TagCalls(removed) == IF removed THEN <<"removeTags", "addTags">> ELSE <<"removeTags">>

\* scheduledTime: startTime.split('T')[1].split('-')[0] throws, inside the
\* try around the webhook, for a startTime without a T
WebhookPayloadBuilt(body) == \E k \in DOMAIN body.startTime : body.startTime[k] = "T"

\* the webhook posted for every created appointment, survey or not
WebhookCalls_WithoutSurvey(body, webhook) ==
    IF WebhookPayloadBuilt(body) /\ webhook # "off" THEN <<"webhook">> ELSE <<>>

\* if (surveyData) { try { await sendToN8nWebhook({...}) } catch {} }, which
\* posts when N8N_WEBHOOK_URL is set
WebhookCalls(body, webhook) ==
    IF body.surveyData /\ WebhookPayloadBuilt(body) /\ webhook # "off"
    THEN <<"webhook">> ELSE <<>>

\* The handler for the request i.  created: the provider's answer to the
\* appointment call; removed, added: those to the two tag calls; webhook:
\* "off" (N8N_WEBHOOK_URL not set), "ok" or "fails".  The exchange keeps what
\* the handler did for it: the payload posted to the provider and the calls
\* made, in their order.  The event keeps the outcomes of the calls made.
PostAppointment(i, created, removed, added, webhook) ==
    LET body == appointmentCalls[i].body
        reply(st, payload, calls) ==
            [appointmentCalls EXCEPT ![i] =
                [state |-> st, body |-> body, ghlPayload |-> payload, calls |-> calls]]
        tagCalls == TagCalls(removed)
        webhookCall == WebhookCalls(body, webhook)
        isCreated == ~ MissingFields(body) /\ created
        addCalled == \E k \in DOMAIN tagCalls : tagCalls[k] = "addTags"
        afterRemove == IF removed THEN contactTags \ {"survey_pending"} ELSE contactTags
    IN  /\ appointmentCalls[i].state = "sent"
        /\ lastEvent' =
              [kind |-> "postAppointment", info |-> "",
               outcome |-> [created |-> isCreated,
                            removed |-> isCreated /\ removed,
                            added   |-> isCreated /\ addCalled /\ added,
                            webhook |-> IF isCreated /\ webhookCall # <<>>
                                        THEN webhook ELSE "off"]]
        /\ UNCHANGED clientVars
        /\ UNCHANGED nTzChanges
        /\ UNCHANGED <<offsetCall, rangeCall, slotLabel, ticketVars>>
        /\ IF MissingFields(body)
           THEN /\ appointmentCalls' = reply("400", <<>>, <<>>)
                /\ UNCHANGED serverVars
           ELSE IF ~ created
           THEN /\ appointmentCalls' =
                      reply("500", <<AppointmentPayload(body)>>, <<"createAppointment">>)
                /\ UNCHANGED serverVars
           ELSE /\ appointmentCalls' =
                      reply("ok", <<AppointmentPayload(body)>>,
                            <<"createAppointment">> \o tagCalls \o webhookCall)
                /\ contactTags' =
                      IF addCalled /\ added
                      THEN afterRemove \cup {"survey_completed"}
                      ELSE afterRemove
                /\ webhooksDelivered' =
                      IF webhookCall # <<>> /\ webhook = "ok"
                      THEN webhooksDelivered \cup {body.contactId}
                      ELSE webhooksDelivered

(***************************************************************************)
(* The specification                                                       *)
(***************************************************************************)
\* The session of a viewer who may change the timezone, over the answers of
\* the slots endpoint of SlotsResponses; the parent passes no surveyData
Next ==
    \/ \E browserTz \in BrowserTimezones : Mount(browserTz)
    \/ \E tz \in UserTimezones : CanChangeTimezone(MaxTzChanges) /\ ChangeTimezone(tz)
    \/ \E call \in BagToSet(bulkFetches), data \in SlotsResponses : BulkFetchOk(call, data)
    \/ \E call \in BagToSet(bulkFetches) : BulkFetchFail(call)
    \/ \E call \in BagToSet(dateFetches), data \in SlotsResponses : DateFetchOk(call, data)
    \/ \E call \in BagToSet(dateFetches) : DateFetchFail(call)
    \/ \E date \in DOMAIN allSlots : handleDateSelect(date)
    \/ \E i \in DOMAIN availableSlots : handleTimeSelect(i)
    \/ \E direction \in {"prev", "next"} :
          InNavRange(direction) /\ navigateMonth(direction)
    \/ \E contactId \in ContactIds : handleBooking(contactId, FALSE)
    \/ \E i \in DOMAIN appointmentCalls : BookingResponseOk(i)
    \/ \E i \in DOMAIN appointmentCalls : BookingResponseNotOk(i)
    \/ \E i \in DOMAIN appointmentCalls : BookingNetworkError(i)
    \/ \E i \in DOMAIN appointmentCalls, created \in BOOLEAN :
          PostAppointment(i, created, TRUE, TRUE, "ok")

Spec == Init /\ [][Next]_vars

\* The session of a viewer in any supported timezone, who keeps the detected
\* timezone, over answers of the provider with a slot at any time of the day
NextTimes ==
    \/ \E browserTz \in TIMEZONES : Mount(browserTz)
    \/ \E call \in BagToSet(bulkFetches), data \in OneSlotResponses :
          BulkFetchOk(call, data)
    \/ \E date \in DOMAIN allSlots : handleDateSelect(date)
    \/ \E i \in DOMAIN availableSlots : handleTimeSelect(i)
    \/ handleBooking("contact-1", FALSE)
    \/ \E i \in DOMAIN appointmentCalls : BookingResponseOk(i)
    \/ \E i \in DOMAIN appointmentCalls : BookingResponseNotOk(i)
    \/ \E i \in DOMAIN appointmentCalls : BookingNetworkError(i)
    \/ \E i \in DOMAIN appointmentCalls, created \in BOOLEAN :
          PostAppointment(i, created, TRUE, TRUE, "ok")

SpecTimes == Init /\ [][NextTimes]_vars

\* The calendar of a component constructed on any day of two years (one of
\* them a leap year), whose user moves through the months of those years
MonthYears == {2024, 2025}

MonthInputs ==
    {[year |-> y, month |-> m, day |-> d] :
        <<y, m, d>> \in {t \in MonthYears \X (1..12) \X (1..31) :
                            t[3] <= DaysInMonth(t[1], t[2])}}

InitMonths ==
    /\ \E now \in MonthInputs : InitAt(now)
    /\ offsetCall = NoOffsetCall
    /\ rangeCall = NoRangeCall
    /\ slotLabel = NoSlotLabel

NextMonths ==
    \E direction \in {"prev", "next"} :
        /\ NewMonth(currentMonth, IF direction = "prev" THEN -1 ELSE 1).year \in MonthYears
        /\ navigateMonth(direction)

SpecMonths == InitMonths /\ [][NextMonths]_vars

(***************************************************************************)
(* getTimezoneOffset over the supported timezones and the instants of      *)
(* OffsetInstants: Init draws the arguments, each step is one call.        *)
(***************************************************************************)
MaxOffsetCalls == 2

\* the days of 2025 the instants are taken from: one of winter, one of
\* summer and the four days on which a supported zone changes its offset
OffsetDays ==
    {Day2025(1, 15), Day2025(3, 9), Day2025(3, 30), Day2025(7, 15),
     Day2025(10, 26), Day2025(11, 2)}

\* every half hour of those days, at the second 0 and at the second 59
OffsetInstants ==
    {[nan |-> FALSE, time |-> d * 86400 + h * 1800 + sec] :
        d \in OffsetDays, h \in 0..47, sec \in {0, 59}}

InitOffsets ==
    /\ InitAt(Today)
    /\ rangeCall = NoRangeCall
    /\ slotLabel = NoSlotLabel
    /\ \E timezone \in TIMEZONES, date \in OffsetInstants :
          offsetCall = [timezone |-> timezone, date |-> date, returned |-> <<>>]

\* one call of getTimezoneOffset with the arguments of offsetCall
CallGetTimezoneOffset ==
    /\ Len(offsetCall.returned) < MaxOffsetCalls
    /\ offsetCall' =
          [offsetCall EXCEPT !.returned =
              Append(@, getTimezoneOffset(offsetCall.timezone, offsetCall.date))]
    /\ lastEvent' = Event("getTimezoneOffset", "")
    /\ UNCHANGED <<clientVars, serverVars, appointmentCalls, nTzChanges, ticketVars,
                 rangeCall, slotLabel>>

NextOffsets == CallGetTimezoneOffset

SpecOffsets == InitOffsets /\ [][NextOffsets]_vars

(***************************************************************************)
(* The viewer timezone: detection at mount over the runtime timezones of   *)
(* RuntimeTimezones, then the user's choices in the Select, which offers   *)
(* TIMEZONES, while the bulk fetches are answered.                         *)
(***************************************************************************)
\* Intl.DateTimeFormat().resolvedOptions().timeZone: supported names, the
\* alias, names with a regional cue, names without one, and "throws" for
\* a runtime in which the call fails
RuntimeTimezones ==
    TIMEZONES \cup
    {"America/Santa_Isabel", "America/Vancouver", "America/Phoenix", "America/Guatemala",
     "America/Belize", "Mexico/General", "America/Bahia_Banderas",
     "America/Indiana/Indianapolis", "Asia/Kolkata", "Europe/Paris", "UTC", "throws"}

NextDetect ==
    \/ \E browserTz \in RuntimeTimezones : Mount(browserTz)
    \/ \E tz \in TIMEZONES : CanChangeTimezone(MaxTzChanges) /\ ChangeTimezone(tz)
    \/ \E call \in BagToSet(bulkFetches), data \in {RespFull, RespEmpty} :
          BulkFetchOk(call, data)
    \/ \E call \in BagToSet(bulkFetches) : BulkFetchFail(call)

SpecDetect == Init /\ [][NextDetect]_vars

(***************************************************************************)
(* POST /api/calendar/appointment under requests of any client and every   *)
(* outcome of the provider, of the tag calls and of the webhook            *)
(***************************************************************************)
MaxAppointmentCalls == 2

\* req.body of the requests: complete with and without surveyData, with a
\* startTime that has no T, and with one required field missing
CompleteAppointmentBody(surveyData) ==
    [contactId   |-> "contact-1",
     startTime   |-> Timestamp(DayA, 16, 0, 0, OffsetMexico),
     endTime     |-> Timestamp(DayA, 16, 45, 0, OffsetMexico),
     title       |-> "Kickoff - businessName",
     description |-> "Videollamada de kickoff",
     surveyData  |-> surveyData]

AppointmentBodies ==
    {CompleteAppointmentBody(TRUE), CompleteAppointmentBody(FALSE),
     [CompleteAppointmentBody(TRUE) EXCEPT !.startTime = DayA],
     [CompleteAppointmentBody(TRUE) EXCEPT !.contactId = ""],
     [CompleteAppointmentBody(TRUE) EXCEPT !.startTime = <<>>],
     [CompleteAppointmentBody(FALSE) EXCEPT !.endTime = <<>>],
     [CompleteAppointmentBody(TRUE) EXCEPT !.title = ""]}

CanRequestAppointment == Len(appointmentCalls) < MaxAppointmentCalls

\* a request arrives at the endpoint
AppointmentRequest(body) ==
    /\ appointmentCalls' =
          Append(appointmentCalls,
                 [state |-> "sent", body |-> body, ghlPayload |-> <<>>, calls |-> <<>>])
    /\ lastEvent' = Event("appointmentRequest", "")
    /\ UNCHANGED clientVars
    /\ UNCHANGED serverVars
    /\ UNCHANGED <<nTzChanges, offsetCall, rangeCall, slotLabel, ticketVars>>

WebhookOutcomes == {"off", "ok", "fails"}

NextServer ==
    \/ \E body \in AppointmentBodies : CanRequestAppointment /\ AppointmentRequest(body)
    \/ \E i \in DOMAIN appointmentCalls, created, removed, added \in BOOLEAN,
          webhook \in WebhookOutcomes :
          PostAppointment(i, created, removed, added, webhook)

SpecServer == Init /\ [][NextServer]_vars

(***************************************************************************)
(* The session of a viewer who changes the timezone once more than in      *)
(* Spec, over two answers of the slots endpoint, and who only selects.     *)
(***************************************************************************)
NextChanges ==
    \/ Mount("America/New_York")
    \/ \E tz \in UserTimezones : CanChangeTimezone(MaxTzChanges + 1) /\ ChangeTimezone(tz)
    \/ \E call \in BagToSet(bulkFetches), data \in {RespFull, RespEmpty} :
          BulkFetchOk(call, data)
    \/ \E call \in BagToSet(dateFetches), data \in {RespFull, RespEmpty} :
          DateFetchOk(call, data)
    \/ \E date \in DOMAIN allSlots : handleDateSelect(date)
    \/ \E i \in DOMAIN availableSlots : handleTimeSelect(i)

SpecChanges == Init /\ [][NextChanges]_vars

(***************************************************************************)
(* The end of a slot as the page shows it: getEndTime and                  *)
(* formatTimeForDisplay over the display start times of DisplayStartTimes. *)
(* Init draws the start time, the step renders the button of the slot.     *)
(***************************************************************************)
\* s.split(':')
RECURSIVE SplitColon(_)
SplitColon(s) ==
    IF \A i \in DOMAIN s : s[i] # ":" THEN <<s>>
    ELSE LET k == CHOOSE i \in DOMAIN s : s[i] = ":" /\ \A j \in 1..(i - 1) : s[j] # ":"
         IN  <<SubSeq(s, 1, k - 1)>> \o SplitColon(SubSeq(s, k + 1, Len(s)))

\* getEndTime(startTime) for a start time whose first two parts are
\* strings of digits
getEndTime(startTime) ==
    IF startTime = <<>> THEN <<>>
    ELSE LET parts        == SplitColon(startTime)
             hours        == parseInt(parts[1])
             minutes      == parseInt(parts[2])
             totalMinutes == hours * 60 + minutes + 45
             endHours     == totalMinutes \div 60
             endMinutes   == totalMinutes % 60
         IN  padStartTo(NumStr(endHours), 2) \o <<":">> \o padStartTo(NumStr(endMinutes), 2)

SuffixAm == <<"a", ".", " ", "m", ".">>
SuffixPm == <<"p", ".", " ", "m", ".">>

\* formatTimeForDisplay(timeString) for a time whose first part is a
\* string of digits
formatTimeForDisplay(timeString) ==
    LET parts   == SplitColon(timeString)
        hours   == parseInt(parts[1])
        minutes == IF Len(parts) >= 2 THEN parts[2] ELSE <<"0", "0">>
        hours12 == padStartTo(NumStr(IF hours % 12 # 0 THEN hours % 12 ELSE 12), 2)
        suffix  == IF hours >= 12 THEN SuffixPm ELSE SuffixAm
    IN  hours12 \o <<":">> \o minutes \o <<" ">> \o suffix

\* the display start times HH:MM:SS of the slots rendered
DisplayStartTimes ==
    {padStart2(hh) \o <<":">> \o padStart2(mm) \o <<":", "0", "0">> :
        hh \in 0..23, mm \in {0, 14, 15, 30, 45, 59}}

InitLabels ==
    /\ InitAt(Today)
    /\ offsetCall = NoOffsetCall
    /\ rangeCall = NoRangeCall
    /\ \E startTime \in DisplayStartTimes :
          slotLabel = [NoSlotLabel EXCEPT !.startTime = startTime]

\* the button of a slot:
\* {formatTimeForDisplay(slot.startTime)} - {formatTimeForDisplay(getEndTime(slot.startTime))}
RenderSlot ==
    /\ ~ slotLabel.rendered
    /\ slotLabel' =
          [startTime |-> slotLabel.startTime,
           endTime   |-> getEndTime(slotLabel.startTime),
           display   |-> formatTimeForDisplay(getEndTime(slotLabel.startTime)),
           rendered  |-> TRUE]
    /\ lastEvent' = Event("renderSlot", "")
    /\ UNCHANGED <<clientVars, serverVars, appointmentCalls, nTzChanges, ticketVars,
                   offsetCall, rangeCall>>

NextLabels == RenderSlot

SpecLabels == InitLabels /\ [][NextLabels]_vars

(***************************************************************************)
(* The range of the bulk fetch: the first lines of fetchAllAvailableSlots  *)
(* over the clocks of RangeNows and the browser zones of BrowserZones.     *)
(* A time with its milliseconds (Date.getTime()) is a record: s, the       *)
(* seconds since 1970-01-01T00:00:00, and ms, the milliseconds of the      *)
(* second.                                                                 *)
(***************************************************************************)
ghlTimezone == "America/Mexico_City"

\* the zones the browser may run in
BrowserZones ==
    {"UTC", "America/Mexico_City", "America/New_York", "America/Los_Angeles",
     "Europe/Madrid"}

\* new Date(): every hour of 4 and 5 November 2025, half past, 123 ms
RangeNows ==
    {[s |-> Day2025(11, d) * 86400 + h * 3600 + 1800, ms |-> 123] : d \in {4, 5}, h \in 0..23}

\* the reading of the clock of the zone tz at the instant t
LocalClock(tz, t) == [s |-> t.s + UtcOffsetMinutes(tz, t.s) * 60, ms |-> t.ms]

\* the instant at which the clock of the zone tz reads local (away from
\* the changes of the offset, which the instants of the model are)
LocalToInstant(tz, local) ==
    [s  |-> local.s - UtcOffsetMinutes(tz, local.s - StandardOffset(tz) * 60) * 60,
     ms |-> local.ms]

\* date.toLocaleString('en-US', {timeZone}): the date and the time of the
\* clock of timeZone, to the second
toLocaleStringIn(t, timeZone) == LocalClock(timeZone, t).s

\* new Date(string) of such a string, which has no offset: the instant at
\* which the clock of the browser reads what the string says
NewDateLocal(browserTz, clockSeconds) ==
    LocalToInstant(browserTz, [s |-> clockSeconds, ms |-> 0])

\* date.setDate(date.getDate() + days), in the zone of the browser
AddLocalDays(browserTz, t, days) ==
    LET local == LocalClock(browserTz, t)
    IN  LocalToInstant(browserTz, [s |-> local.s + days * 86400, ms |-> local.ms])

\* date.setHours(h, m, sec, ms), in the zone of the browser
SetLocalTimeOfDay(browserTz, t, h, m, sec, ms) ==
    LET local == LocalClock(browserTz, t)
    IN  LocalToInstant(browserTz,
            [s  |-> (local.s \div 86400) * 86400 + (h * 60 + m) * 60 + sec,
             ms |-> ms])

\* date.getTime() - minutes * 60 * 1000
MinusMinutes(t, minutes) == [s |-> t.s - minutes * 60, ms |-> t.ms]

\* startTimestamp and endTimestamp of fetchAllAvailableSlots
BulkRange(browserTz, now) ==
    LET today         == now
        endDate       == AddLocalDays(browserTz, today, 28)
        todayInGHL    == NewDateLocal(browserTz, toLocaleStringIn(today, ghlTimezone))
        endDateInGHL  == NewDateLocal(browserTz, toLocaleStringIn(endDate, ghlTimezone))
        startOfToday  == SetLocalTimeOfDay(browserTz, todayInGHL, 0, 0, 0, 0)
        endOfEndDate  == SetLocalTimeOfDay(browserTz, endDateInGHL, 23, 59, 59, 999)
        asDate(t)     == [nan |-> FALSE, time |-> t.s]
    IN  [startTimestamp |->
            MinusMinutes(startOfToday, getTimezoneOffset(ghlTimezone, asDate(startOfToday))),
         endTimestamp |->
            MinusMinutes(endOfEndDate, getTimezoneOffset(ghlTimezone, asDate(endOfEndDate)))]

InitRange ==
    /\ InitAt(Today)
    /\ offsetCall = NoOffsetCall
    /\ slotLabel = NoSlotLabel
    /\ \E browserTz \in BrowserZones, now \in RangeNows :
          rangeCall = [NoRangeCall EXCEPT !.browserTz = browserTz, !.now = now]

\* fetchAllAvailableSlots up to the request
ComputeBulkRange ==
    /\ ~ rangeCall.computed
    /\ rangeCall' =
          [browserTz      |-> rangeCall.browserTz,
           now            |-> rangeCall.now,
           startTimestamp |-> BulkRange(rangeCall.browserTz, rangeCall.now).startTimestamp,
           endTimestamp   |-> BulkRange(rangeCall.browserTz, rangeCall.now).endTimestamp,
           computed       |-> TRUE]
    /\ lastEvent' = Event("bulkRange", "")
    /\ UNCHANGED <<clientVars, serverVars, appointmentCalls, nTzChanges, ticketVars,
                   offsetCall, slotLabel>>

NextRange == ComputeBulkRange

SpecRange == InitRange /\ [][NextRange]_vars

(***************************************************************************)
(* The ticket form (TicketForm) and POST /api/tickets                      *)
(***************************************************************************)
MaxTicketCalls == 2

TenDigits == <<"5", "5", "1", "2", "3", "4", "5", "6", "7", "8">>

\* what the user may type in the phone field
PhoneInputs ==
    {<<>>, TenDigits, <<"+">> \o TenDigits, SubSeq(TenDigits, 1, 9),
     TenDigits \o <<"x">>}

\* the contacts that the client search lists
TicketContacts == {[id |-> "contact-1", contactName |-> "Ana"]}

\* phonePattern.test(value), phonePattern = /^\+?\d{10,}$/
phonePatternTest(value) ==
    LET digits == IF Len(value) > 0 /\ value[1] = "+" THEN Tail(value) ELSE value
    IN  Len(digits) >= 10 /\ AllDigits(digits)

\* submitTicketMutation.isPending: a call of the form awaits its outcome
isPending == \E i \in DOMAIN ticketCalls :
    ticketCalls[i].origin = "form" /\ ~ ticketCalls[i].settled

\* the fields of the form are reachable while the modal is closed
FormEditable == ~ isConfirmationOpen

\* Select of the category: onValueChange
setCategoria(value) ==
    /\ FormEditable
    /\ formData' = [formData EXCEPT !.categoria = value]
    /\ lastEvent' = Event("ticketEdit", "")
    /\ UNCHANGED <<isConfirmationOpen, ticketCalls, ticketWebhooks>>
    /\ UNCHANGED <<clientVars, serverVars, appointmentCalls, nTzChanges, offsetCall,
                 rangeCall, slotLabel>>

\* CommandItem of the client search: onSelect
selectCliente(contact) ==
    /\ FormEditable
    /\ formData' = [formData EXCEPT !.clienteId = contact.id,
                                    !.clienteNombre = contact.contactName]
    /\ lastEvent' = Event("ticketEdit", "")
    /\ UNCHANGED <<isConfirmationOpen, ticketCalls, ticketWebhooks>>
    /\ UNCHANGED <<clientVars, serverVars, appointmentCalls, nTzChanges, offsetCall,
                 rangeCall, slotLabel>>

\* Input of the phone: onChange
setTelefonoContacto(nextValue) ==
    /\ FormEditable
    /\ formData' = [formData EXCEPT !.telefonoContacto = nextValue]
    /\ lastEvent' = Event("ticketEdit", "")
    /\ UNCHANGED <<isConfirmationOpen, ticketCalls, ticketWebhooks>>
    /\ UNCHANGED <<clientVars, serverVars, appointmentCalls, nTzChanges, offsetCall,
                 rangeCall, slotLabel>>

\* Textarea of the description: onChange
setDescripcion(value) ==
    /\ FormEditable
    /\ formData' = [formData EXCEPT !.descripcion = value]
    /\ lastEvent' = Event("ticketEdit", "")
    /\ UNCHANGED <<isConfirmationOpen, ticketCalls, ticketWebhooks>>
    /\ UNCHANGED <<clientVars, serverVars, appointmentCalls, nTzChanges, offsetCall,
                 rangeCall, slotLabel>>

\* Select of the priority: onValueChange
setPrioridad(value) ==
    /\ FormEditable
    /\ formData' = [formData EXCEPT !.prioridad = value]
    /\ lastEvent' = Event("ticketEdit", "")
    /\ UNCHANGED <<isConfirmationOpen, ticketCalls, ticketWebhooks>>
    /\ UNCHANGED <<clientVars, serverVars, appointmentCalls, nTzChanges, offsetCall,
                 rangeCall, slotLabel>>

\* the two checks of handleSubmit: the required fields, then the phone
TicketFormValid(data) ==
    /\ ~ (\/ data.categoria = ""
          \/ data.clienteId = ""
          \/ data.telefonoContacto = <<>>
          \/ data.descripcion = ""
          \/ data.prioridad = "")
    /\ phonePatternTest(data.telefonoContacto)

\* handleSubmit that opens the modal whatever the form holds
handleSubmit_Unchecked ==
    /\ FormEditable
    /\ ~ isPending
    /\ isConfirmationOpen' = TRUE
    /\ lastEvent' = Event("ticketSubmit", "")
    /\ UNCHANGED <<formData, ticketCalls, ticketWebhooks>>
    /\ UNCHANGED <<clientVars, serverVars, appointmentCalls, nTzChanges, offsetCall,
                 rangeCall, slotLabel>>

\* handleSubmit: the submit of the form; its button is disabled while the
\* mutation is pending
handleSubmit ==
    /\ FormEditable
    /\ ~ isPending
    /\ IF TicketFormValid(formData)
       THEN isConfirmationOpen' = TRUE
       ELSE UNCHANGED isConfirmationOpen
    /\ lastEvent' = Event("ticketSubmit", "")
    /\ UNCHANGED <<formData, ticketCalls, ticketWebhooks>>
    /\ UNCHANGED <<clientVars, serverVars, appointmentCalls, nTzChanges, offsetCall,
                 rangeCall, slotLabel>>

\* the fields mutationFn appends to the FormData it posts
TicketRequestBody(data) ==
    [categoria        |-> data.categoria,
     clienteId        |-> data.clienteId,
     clienteNombre    |-> data.clienteNombre,
     telefonoContacto |-> data.telefonoContacto,
     descripcion      |-> data.descripcion,
     prioridad        |-> data.prioridad,
     attachments      |-> data.attachments]

\* a request on its way to the endpoint
TicketCall(origin, body) ==
    [origin |-> origin, body |-> body, status |-> "sent", settled |-> FALSE]

CanSendTicket == Len(ticketCalls) < MaxTicketCalls

\* ConfirmationModal onConfirm: close the modal and
\* submitTicketMutation.mutate(formData)
onConfirm ==
    /\ isConfirmationOpen
    /\ isConfirmationOpen' = FALSE
    /\ ticketCalls' = Append(ticketCalls, TicketCall("form", TicketRequestBody(formData)))
    /\ lastEvent' = Event("ticketConfirm", "")
    /\ UNCHANGED <<formData, ticketWebhooks>>
    /\ UNCHANGED <<clientVars, serverVars, appointmentCalls, nTzChanges, offsetCall,
                 rangeCall, slotLabel>>

\* ConfirmationModal onCancel, and onOpenChange(false) of the dialog
onCancel ==
    /\ isConfirmationOpen
    /\ isConfirmationOpen' = FALSE
    /\ lastEvent' = Event("ticketCancel", "")
    /\ UNCHANGED <<formData, ticketCalls, ticketWebhooks>>
    /\ UNCHANGED <<clientVars, serverVars, appointmentCalls, nTzChanges, offsetCall,
                 rangeCall, slotLabel>>

\* the bodies of the requests that reach the endpoint from elsewhere than
\* the form, all without telefonoContacto; a field the request lacks reads
\* as empty on the server (undefined and '' are both falsy)
DirectBodies ==
    {[categoria |-> "soporte", clienteId |-> "contact-1", clienteNombre |-> "Ana",
      telefonoContacto |-> phone, descripcion |-> descripcion, prioridad |-> "alta",
      attachments |-> <<>>] :
        phone \in {<<>>}, descripcion \in {"", "no carga"}}

\* a request to POST /api/tickets that the form did not send
DirectTicketRequest(body) ==
    /\ ticketCalls' = Append(ticketCalls, TicketCall("direct", body))
    /\ lastEvent' = Event("ticketDirect", "")
    /\ UNCHANGED <<formData, isConfirmationOpen, ticketWebhooks>>
    /\ UNCHANGED <<clientVars, serverVars, appointmentCalls, nTzChanges, offsetCall,
                 rangeCall, slotLabel>>

\* if (!categoria || !clienteId || !descripcion || !prioridad)
TicketMissingFields(body) ==
    body.categoria = "" \/ body.clienteId = "" \/ body.descripcion = "" \/ body.prioridad = ""

\* payloadItem.json (the keys without their accents; submittedAt and
\* formMode, which the environment gives, left out)
TicketPayloadJson(body) ==
    [Categoria   |-> body.categoria,
     Cliente     |-> body.clienteNombre,
     customerId  |-> body.clienteId,
     Descripcion |-> body.descripcion,
     Prioridad   |-> body.prioridad,
     Adjuntos    |-> body.attachments]

\* The handler of POST /api/tickets for the request i.  webhook: "off" (no
\* webhook URL configured), "ok" or "fails"; a failing webhook call has
\* been made and does not fail the request.
PostTickets(i, webhook) ==
    LET body == ticketCalls[i].body
    IN  /\ ticketCalls[i].status = "sent"
        /\ ~ ticketCalls[i].settled
        /\ IF TicketMissingFields(body)
           THEN /\ ticketCalls' = [ticketCalls EXCEPT ![i].status = "400"]
                /\ UNCHANGED ticketWebhooks
           ELSE /\ ticketCalls' = [ticketCalls EXCEPT ![i].status = "201"]
                /\ ticketWebhooks' =
                      IF webhook = "off" THEN ticketWebhooks
                      ELSE Append(ticketWebhooks, [call |-> i, json |-> TicketPayloadJson(body)])
        /\ lastEvent' = Event("postTickets", "")
        /\ UNCHANGED <<formData, isConfirmationOpen>>
        /\ UNCHANGED <<clientVars, serverVars, appointmentCalls, nTzChanges, offsetCall,
                 rangeCall, slotLabel>>

\* mutationFn resolves with a response that is ok: onSuccess resets the form
TicketSuccess(i) ==
    /\ ticketCalls[i].origin = "form"
    /\ ~ ticketCalls[i].settled
    /\ ticketCalls[i].status = "201"
    /\ ticketCalls' = [ticketCalls EXCEPT ![i].settled = TRUE]
    /\ formData' = EmptyForm
    /\ lastEvent' = Event("ticketSuccess", "")
    /\ UNCHANGED <<isConfirmationOpen, ticketWebhooks>>
    /\ UNCHANGED <<clientVars, serverVars, appointmentCalls, nTzChanges, offsetCall,
                 rangeCall, slotLabel>>

\* mutationFn throws, on a response that is not ok or on a fetch that
\* fails (the request or its response may be lost): onError shows a toast
TicketError(i) ==
    /\ ticketCalls[i].origin = "form"
    /\ ~ ticketCalls[i].settled
    /\ ticketCalls[i].status \in {"sent", "201", "400"}
    /\ ticketCalls' = [ticketCalls EXCEPT ![i].settled = TRUE]
    /\ lastEvent' = Event("ticketError", "")
    /\ UNCHANGED <<formData, isConfirmationOpen, ticketWebhooks>>
    /\ UNCHANGED <<clientVars, serverVars, appointmentCalls, nTzChanges, offsetCall,
                 rangeCall, slotLabel>>

\* The ticket form of one user and the endpoint, which also answers
\* requests that do not come from the form
NextTickets ==
    \/ setCategoria("soporte")
    \/ \E contact \in TicketContacts : selectCliente(contact)
    \/ \E nextValue \in PhoneInputs : setTelefonoContacto(nextValue)
    \/ \E value \in {"", "no carga"} : setDescripcion(value)
    \/ setPrioridad("alta")
    \/ handleSubmit
    \/ CanSendTicket /\ onConfirm
    \/ onCancel
    \/ \E body \in DirectBodies : CanSendTicket /\ DirectTicketRequest(body)
    \/ \E i \in DOMAIN ticketCalls, webhook \in {"off", "ok", "fails"} : PostTickets(i, webhook)
    \/ \E i \in DOMAIN ticketCalls : TicketSuccess(i)
    \/ \E i \in DOMAIN ticketCalls : TicketError(i)

SpecTickets == Init /\ [][NextTickets]_vars

(***************************************************************************)
(* Claims                                                                  *)
(***************************************************************************)
NoFetchInFlight == bulkFetches = EmptyBag /\ dateFetches = EmptyBag

\* the display time of a provider timestamp in a timezone
DisplayTime(slotTime, tz) == TimePart(toLocaleTimeString(NewDate(slotTime), tz))

\* C1: discard-on-mismatch.  When the response of a bulk or single-date
\* fetch that started under timezone A is processed while the viewer
\* timezone is B # A, the step writes nothing: the cache and the displayed
\* slot list stay as they were.
C1_DiscardOnMismatch ==
    [][(/\ lastEvent'.kind \in {"bulkOk", "dateOk"}
        /\ lastEvent'.info # selectedTimezone)
       => (allSlots' = allSlots /\ availableSlots' = availableSlots)]_vars

\* C2: never a mix of timezones.  Whenever no fetch is in flight, every
\* slot of the cache shows its provider timestamp in the current viewer
\* timezone.
C2_NeverMixOfTimezones ==
    NoFetchInFlight =>
        \A d \in DOMAIN allSlots : \A i \in DOMAIN allSlots[d] :
            allSlots[d][i].startTime =
                DisplayTime(allSlots[d][i].originalGHLTime, selectedTimezone)

\* C3: every change of the viewer timezone invalidates the cache.  While
\* the bulk fetch started by the latest change (or by the mount) awaits its
\* response the cache is empty, and each change starts exactly one bulk
\* fetch, which nothing else starts.
C3_ChangeInvalidatesCache ==
    /\ [](\A call \in BagToSet(bulkFetches) :
            call.change = nTzChanges => allSlots = EmptyMap)
    /\ [][IF lastEvent'.kind \in {"mount", "changeTimezone"}
          THEN \E call \in BagToSet(bulkFetches') :
                  /\ call.tzAtStart = selectedTimezone'
                  /\ bulkFetches' = bulkFetches (+) SetToBag({call})
          ELSE \A call \in BagToSet(bulkFetches') :
                  CopiesIn(call, bulkFetches') <= CopiesIn(call, bulkFetches)]_vars

\* the request a handleBooking step has just sent, as a set (empty if none)
NewCalls ==
    IF lastEvent'.kind = "bookingSent"
    THEN {appointmentCalls'[Len(appointmentCalls')]}
    ELSE {}

\* C4: an appointment request carries as startTime, character for
\* character, the provider timestamp the slots endpoint returned for the
\* selected slot, and the server posts the request's startTime and endTime
\* unchanged to the provider.
C4_StartTimeIsProviderTimestamp ==
    [][/\ \A call \in NewCalls :
            LET k == FindSlot(availableSlots, selectedTime)
            IN  /\ k # 0
                /\ call.body.startTime = availableSlots[k].originalGHLTime
                /\ call.body.startTime \in ProviderTimestamps
       /\ lastEvent'.kind = "postAppointment" =>
            \A i \in DOMAIN appointmentCalls :
                (appointmentCalls[i].state = "sent"
                   /\ appointmentCalls'[i].state \in {"ok", "500"}) =>
                    /\ Len(appointmentCalls'[i].ghlPayload) = 1
                    /\ appointmentCalls'[i].ghlPayload[1].startTime =
                          appointmentCalls[i].body.startTime
                    /\ appointmentCalls'[i].ghlPayload[1].endTime =
                          appointmentCalls[i].body.endTime]_vars

\* a request whose start is the slot the viewer sees at 17:00:00 in New
\* York has reached the provider with the provider's own timestamp
C4_Witness ==
    \E i \in DOMAIN appointmentCalls :
        /\ appointmentCalls[i].state = "ok"
        /\ selectedTimezone = "America/New_York"
        /\ selectedTime = <<"1", "7", ":", "0", "0", ":", "0", "0">>
        /\ appointmentCalls[i].ghlPayload[1].startTime =
              Timestamp(DayA, 16, 0, 0, OffsetMexico)

\* hours * 60 + minutes of the hh:mm at positions 12..16 of a timestamp
MinuteOfDay(t) == parseInt(SubSeq(t, 12, 13)) * 60 + parseInt(SubSeq(t, 15, 16))

\* C5: for a well-formed provider timestamp D T hh:mm:ss OFF the request's
\* endTime is D T h2:m2:ss OFF with h2 * 60 + m2 = (hh * 60 + mm + 45) mod
\* 1440: date, seconds and offset are those of the start, also across
\* midnight.
C5_EndTimeKeepsDateAndOffset ==
    \A i \in DOMAIN appointmentCalls :
        LET start == appointmentCalls[i].body.startTime
            end   == appointmentCalls[i].body.endTime
        IN  ghlMatch(start) =>
              /\ ghlMatch(end)
              /\ SubSeq(end, 1, 11) = SubSeq(start, 1, 11)
              /\ SubSeq(end, 17, 25) = SubSeq(start, 17, 25)
              /\ parseInt(SubSeq(end, 12, 13)) \in 0..23
              /\ parseInt(SubSeq(end, 15, 16)) \in 0..59
              /\ MinuteOfDay(end) = (MinuteOfDay(start) + 45) % 1440

\* a request for the slot at 23:30:59 ends at 00:15:59 of the same date
C5_Witness ==
    \E i \in DOMAIN appointmentCalls :
        /\ appointmentCalls[i].body.startTime = Timestamp(DayA, 23, 30, 59, OffsetIndia)
        /\ appointmentCalls[i].body.endTime = Timestamp(DayA, 0, 15, 59, OffsetIndia)

\* C6: the endTime of an appointment request is the instant 45 minutes
\* after the instant of its startTime.
C6_EndIs45MinutesAfterStart ==
    \A i \in DOMAIN appointmentCalls :
        LET start == NewDate(appointmentCalls[i].body.startTime)
            end   == NewDate(appointmentCalls[i].body.endTime)
        IN  /\ ~ start.nan /\ ~ end.nan
            /\ end.time = start.time + 45 * 60

\* seconds of the day of a well-formed timestamp, and of its offset
SecondOfDay(t) == MinuteOfDay(t) * 60 + parseInt(SubSeq(t, 18, 19))
OffsetSeconds(t) ==
    (IF t[20] = "-" THEN -1 ELSE 1)
        * (parseInt(SubSeq(t, 21, 22)) * 60 + parseInt(SubSeq(t, 24, 25))) * 60

\* hh:mm:ss of a second of the day
ClockString(sec) ==
    padStart2(sec \div 3600) \o <<":">> \o padStart2((sec % 3600) \div 60) \o <<":">>
        \o padStart2(sec % 60)

\* C7: the display start time of a slot is the time of day of the provider
\* timestamp's instant in the viewer timezone, (provider local time -
\* provider offset + viewer offset) mod 24 h, and nothing more; the slot
\* 2025-11-03T16:00:00-06:00 shows as 17:00:00 to a viewer at UTC-5.
C7_ForwardConversion ==
    \A slots \in {allSlots[d] : d \in DOMAIN allSlots} \cup {availableSlots} :
        \A i \in DOMAIN slots :
            LET t == slots[i].originalGHLTime
            IN  /\ ghlMatch(t) =>
                    slots[i].startTime =
                        ClockString((SecondOfDay(t) - OffsetSeconds(t)
                                       + UtcOffsetMinutes(selectedTimezone, 0) * 60
                                       + 2 * 86400) % 86400)
                /\ (t = Timestamp(DayA, 16, 0, 0, OffsetMexico)
                      /\ UtcOffsetMinutes(selectedTimezone, 0) = -300) =>
                    slots[i].startTime = <<"1", "7", ":", "0", "0", ":", "0", "0">>

\* the slot of the scenario is in the cache of a viewer in New York
C7_Witness ==
    /\ selectedTimezone = "America/New_York"
    /\ DayA \in DOMAIN allSlots
    /\ Len(allSlots[DayA]) = 1
    /\ allSlots[DayA][1].originalGHLTime = Timestamp(DayA, 16, 0, 0, OffsetMexico)
    /\ allSlots[DayA][1].startTime = <<"1", "7", ":", "0", "0", ":", "0", "0">>

\* C8: a booking attempt whose selected slot is not found, has no provider
\* timestamp or has a timestamp that does not match the pattern fails and
\* sends no appointment request; no request is sent with an empty
\* contactId either.
C8_InvalidAttemptSendsNothing ==
    [][/\ lastEvent'.kind \in {"bookingSent", "bookingRejected"} =>
            LET k == FindSlot(availableSlots, selectedTime)
            IN  (\/ k = 0
                 \/ availableSlots[k].originalGHLTime = <<>>
                 \/ ~ ghlMatch(availableSlots[k].originalGHLTime)) =>
                    /\ lastEvent'.kind = "bookingRejected"
                    /\ appointmentCalls' = appointmentCalls
                    /\ ~ booking' /\ ~ booked'
       /\ \A call \in NewCalls : call.body.contactId # ""
       /\ lastEvent'.kind # "bookingSent" =>
            Len(appointmentCalls') <= Len(appointmentCalls)]_vars

\* an attempt was refused for a timestamp that does not match the pattern
C8_Witness ==
    /\ lastEvent = Event("bookingRejected", "badFormat")
    /\ appointmentCalls = <<>>
    /\ ~ booking

\* C9: a failed booking attempt (refused locally, answered not OK, or a
\* network error) changes neither the selected date, the selected slot,
\* the cache nor the viewer timezone, leaves booked false and the
\* in-flight flag false; an attempt refused locally leaves the session in
\* SlotSelected.
C9_FailedAttemptKeepsSelection ==
    [][lastEvent'.kind \in {"bookingRejected", "bookingNotOk", "bookingNetworkError"} =>
          /\ UNCHANGED <<selectedDate, selectedTime, allSlots, availableSlots,
                         selectedTimezone, currentMonth>>
          /\ ~ booked /\ ~ booked'
          /\ ~ booking'
          /\ lastEvent'.kind = "bookingRejected" =>
                (selectedDate' # <<>> /\ selectedTime' # <<>>)]_vars

\* the provider refused an appointment and the session is in SlotSelected
\* again, confirm enabled
C9_Witness ==
    /\ lastEvent = Event("bookingNotOk", "500")
    /\ selectedDate # <<>> /\ selectedTime # <<>>
    /\ ~ booking /\ ~ booked

UserEvents ==
    {"changeTimezone", "navigate", "dateSelect", "timeSelect", "bookingSent",
     "bookingRejected"}

\* C10: booked is terminal.  Once booked, booked stays true, no timezone
\* change, navigation, date or slot selection or confirm takes place, and
\* no appointment request is issued; a booking succeeds only when none
\* has succeeded before.
C10_BookedIsTerminal ==
    [][/\ booked =>
            /\ booked'
            /\ lastEvent'.kind \notin UserEvents
            /\ UNCHANGED <<selectedTimezone, currentMonth, selectedDate, selectedTime>>
            /\ Len(appointmentCalls') <= Len(appointmentCalls)
            /\ \A i \in DOMAIN appointmentCalls' : appointmentCalls'[i].state # "sent"
       /\ lastEvent'.kind = "bookingOk" => (~ booked /\ booked')]_vars

\* a bulk fetch resolves after the booking has succeeded
C10_Witness == booked /\ lastEvent.kind = "bulkOk"

\* confirm is rendered and enabled: a date and a slot are selected
ConfirmEnabled == selectedDate # <<>> /\ selectedTime # <<>> /\ ~ booking /\ ~ booked

\* C11: in every state where confirm is enabled the selected date has a
\* non-empty slot list in the cache and the selected slot is one of that
\* list's entries, so no appointment request is issued for a date whose
\* cache entry is absent or has zero slots.
C11_ConfirmOnlyForCachedSlot ==
    ConfirmEnabled =>
        /\ selectedDate \in DOMAIN allSlots
        /\ Len(allSlots[selectedDate]) > 0
        /\ \E i \in DOMAIN allSlots[selectedDate] :
              allSlots[selectedDate][i].startTime = selectedTime

\* C12: whenever manual date selection or month navigation changes the
\* selected date, no slot is selected afterwards; when month navigation
\* finds no date with slots, neither a date nor a slot is selected.
C12_DateChangeClearsSlot ==
    [][lastEvent'.kind \in {"dateSelect", "navigate"} =>
          /\ selectedDate' # selectedDate => selectedTime' = <<>>
          /\ (lastEvent'.kind = "navigate" /\ selectedDate' = <<>>) =>
                selectedTime' = <<>>]_vars

\* months since year 0 of a date
MonthIndex(date) == date.year * 12 + (date.month - 1)

\* C13: navigateMonth moves the displayed month to exactly the following
\* (next) or preceding (prev) calendar month, year rollover included, and
\* to day 1 of it, whatever the day of the month of the current value.
C13_NavigateMovesOneMonth ==
    [][lastEvent'.kind = "navigate" =>
          /\ currentMonth'.day = 1
          /\ currentMonth'.month \in 1..12
          /\ MonthIndex(currentMonth') =
                MonthIndex(currentMonth) + (IF lastEvent'.info = "prev" THEN -1 ELSE 1)]_vars

\* the calendar shows February 2025 after next
C13_Witness ==
    /\ lastEvent = Event("navigate", "next")
    /\ currentMonth = [year |-> 2025, month |-> 2, day |-> 1]

\* the dates of the month of a Date that the cache holds with slots
DatesWithSlots(month) ==
    {d \in DOMAIN allSlots :
        /\ DateYear(d) = month.year /\ DateMonth(d) = month.month
        /\ Len(allSlots[d]) > 0}

\* C14: after navigateMonth, if the cache holds a date of the target month
\* with a non-empty slot list, the selected date is the earliest such date
\* and the displayed slot list is that date's cached list; otherwise the
\* selected date and the displayed slot list are empty.
C14_NavigateSelectsEarliest ==
    [][lastEvent'.kind = "navigate" =>
          IF DatesWithSlots(currentMonth') # {}
          THEN /\ selectedDate' \in DatesWithSlots(currentMonth')
               /\ \A d \in DatesWithSlots(currentMonth') :
                     DateDays(selectedDate') <= DateDays(d)
               /\ availableSlots' = allSlots[selectedDate']
               /\ allSlots' = allSlots
          ELSE selectedDate' = <<>> /\ availableSlots' = <<>>]_vars

\* back in November, the earlier of two dates with slots is selected
C14_Witness ==
    /\ lastEvent = Event("navigate", "prev")
    /\ DayA \in DOMAIN allSlots /\ DayB \in DOMAIN allSlots
    /\ Len(allSlots[DayB]) > 0
    /\ selectedDate = DayA

\* days from the epoch to today
TodayDays == DaysFromCivil(Today.year, Today.month, Today.day)

\* C15: the selected date is empty or a date not strictly before today
\* that had a non-empty cached slot list when it was selected, by hand or
\* by month navigation; and a date that is today or later with cached
\* slots can be selected by hand.
C15_SelectableFromToday ==
    /\ [](/\ selectedDate # <<>> => DateDays(selectedDate) >= TodayDays
          /\ \A d \in DOMAIN allSlots :
                (/\ ~ booked
                 /\ InCalendarDays(d)
                 /\ DateDays(d) >= TodayDays
                 /\ Len(allSlots[d]) > 0) => DateSelectable(d))
    /\ [][(/\ lastEvent'.kind \in {"dateSelect", "navigate"}
           /\ selectedDate' # <<>>) =>
             (selectedDate' \in DOMAIN allSlots /\ Len(allSlots[selectedDate']) > 0)]_vars

\* the minutes since midnight that a clock of the timezone shows at the
\* instant t
WallClockMinutes(tz, t) == ((t \div 60) + UtcOffsetMinutes(tz, t)) % 1440

\* C16: for every supported timezone and every instant, every value d that
\* getTimezoneOffset returns is a number of minutes with -720 < d <= 720
\* that equals the wall clock of the timezone minus the wall clock of UTC
\* modulo 1440, and two calls with the same arguments return the same value
C16_OffsetInRangeAndStable ==
    \A i \in DOMAIN offsetCall.returned :
        LET d == offsetCall.returned[i]
            t == offsetCall.date.time
        IN  /\ d \in Int
            /\ -720 < d /\ d <= 720
            /\ d % 1440 =
                 (WallClockMinutes(offsetCall.timezone, t) - WallClockMinutes("UTC", t)) % 1440
            /\ \A j \in DOMAIN offsetCall.returned : offsetCall.returned[j] = d

\* two calls were made for a timezone east of UTC at an instant whose two
\* wall clocks lie on different days
C16_Witness ==
    /\ Len(offsetCall.returned) = 2
    /\ offsetCall.timezone = "Europe/Madrid"
    /\ WallClockMinutes("Europe/Madrid", offsetCall.date.time)
         < WallClockMinutes("UTC", offsetCall.date.time)
    /\ offsetCall.returned[1] = 120

\* value matches ^\+?\d{10,}$: with or without a leading +, ten or more
\* characters follow, all of them digits
PhoneMatches(value) ==
    \E plus \in {0, 1} :
        /\ plus = 1 => (Len(value) >= 1 /\ value[1] = "+")
        /\ Len(value) - plus >= 10
        /\ \A k \in (plus + 1)..Len(value) : IsDigit(value[k])

\* all the required fields are present and the phone matches the pattern
PassesValidation(data) ==
    /\ data.categoria # "" /\ data.clienteId # "" /\ data.telefonoContacto # <<>>
    /\ data.descripcion # "" /\ data.prioridad # ""
    /\ PhoneMatches(data.telefonoContacto)

\* the requests the form has sent
FormCalls(calls) == SelectSeq(calls, LAMBDA c : c.origin = "form")

\* C17: a submit of the ticket form that passes validation only opens the
\* confirmation modal, and a submit that fails validation neither opens it
\* nor sends anything; a POST /api/tickets of the form is sent only by the
\* step in which the user confirms in the modal, and carries data that
\* passed validation; a cancel sends nothing and leaves the form data as
\* they were
C17_PostOnlyOnConfirm ==
    /\ [](\A i \in DOMAIN ticketCalls :
             ticketCalls[i].origin = "form" => PassesValidation(ticketCalls[i].body))
    /\ [][/\ lastEvent'.kind = "ticketSubmit" =>
                /\ isConfirmationOpen' = PassesValidation(formData)
                /\ ticketCalls' = ticketCalls
                /\ ticketWebhooks' = ticketWebhooks
                /\ formData' = formData
          /\ Len(FormCalls(ticketCalls')) # Len(FormCalls(ticketCalls)) =>
                /\ lastEvent'.kind = "ticketConfirm"
                /\ isConfirmationOpen
                /\ FormCalls(ticketCalls') =
                      Append(FormCalls(ticketCalls), TicketCall("form", formData))
          /\ lastEvent'.kind = "ticketCancel" =>
                /\ ticketCalls' = ticketCalls
                /\ ticketWebhooks' = ticketWebhooks
                /\ formData' = formData
                /\ ~ isConfirmationOpen'
       ]_vars

\* the user has confirmed a form whose phone starts with + and the request
\* is on its way, after an earlier request of the form
C17_Witness ==
    /\ lastEvent.kind = "ticketConfirm"
    /\ Len(FormCalls(ticketCalls)) = 2
    /\ ticketCalls[Len(ticketCalls)].body.telefonoContacto = <<"+">> \o TenDigits
    /\ ticketCalls[Len(ticketCalls)].status = "sent"

\* the keys under which a json item would carry the phone of the contact
PhoneKeys == {"telefonoContacto", "Telefono del Contacto", "Telefono"}

\* C18: POST /api/tickets treats telefonoContacto as required: a request
\* without it is answered 400 and no webhook call is made for it, and the
\* json item posted to the webhook for an accepted request carries it
C18_PhoneRequiredByEndpoint ==
    /\ \A i \in DOMAIN ticketCalls :
          (ticketCalls[i].status # "sent" /\ ticketCalls[i].body.telefonoContacto = <<>>) =>
              /\ ticketCalls[i].status = "400"
              /\ \A w \in DOMAIN ticketWebhooks : ticketWebhooks[w].call # i
    /\ \A w \in DOMAIN ticketWebhooks :
          DOMAIN ticketWebhooks[w].json \cap PhoneKeys # {}

\* C19: the step in which a bulk fetch is processed with success writes the
\* cache as a whole: right after it the cache has exactly the dates of that
\* response, each with the slots of that response in their order, and so
\* no entry of an earlier fetch and no part of the response is missing
C19_BulkFetchReplacesCache ==
    [][lastEvent'.kind = "bulkOk" =>
          LET data == lastEvent'.data
          IN  /\ DOMAIN allSlots' = DOMAIN data
              /\ \A dateKey \in DOMAIN data :
                    /\ Len(allSlots'[dateKey]) = Len(data[dateKey])
                    /\ \A i \in DOMAIN data[dateKey] :
                          allSlots'[dateKey][i].originalGHLTime = data[dateKey][i]
       ]_vars

\* a bulk fetch with no dates was processed while a date is selected, which
\* the cache of an earlier fetch allowed to select: the cache is empty
C19_Witness ==
    /\ lastEvent.kind = "bulkOk"
    /\ lastEvent.data = RespEmpty
    /\ selectedDate # <<>>
    /\ allSlots = EmptyMap

\* C20: of each of the three network operations, the bulk fetch, the fetch
\* of one date and the submission of a booking, at most one call is in
\* flight in every state
C20_AtMostOneCallInFlight ==
    /\ BagCardinality(bulkFetches) <= 1
    /\ BagCardinality(dateFetches) <= 1
    /\ Len(appointmentCalls) <= 1

\* the calls of the client on their way: bulk fetches, single-date fetches
\* and appointment requests
RequestsInFlight(bulk, single, appointments) ==
    BagCardinality(bulk) + BagCardinality(single) + Len(appointments)

\* C21: when a step selects a date or replaces the cache while a date is
\* selected, and the cache has an entry for the selected date, the step
\* issues no network request and the displayed slots become exactly the
\* cached list; a step issues a single-date fetch only for a selected date
\* that is not empty and is absent from the cache
C21_CachedDateNeedsNoFetch ==
    [][/\ ( /\ (selectedDate' # selectedDate \/ allSlots' # allSlots)
            /\ selectedDate' # <<>>
            /\ selectedDate' \in DOMAIN allSlots' ) =>
              /\ RequestsInFlight(bulkFetches', dateFetches', appointmentCalls')
                   <= RequestsInFlight(bulkFetches, dateFetches, appointmentCalls)
              /\ BagCardinality(dateFetches') <= BagCardinality(dateFetches)
              /\ availableSlots' = allSlots'[selectedDate']
       /\ BagCardinality(dateFetches') > BagCardinality(dateFetches) =>
              /\ selectedDate' # <<>>
              /\ selectedDate' \notin DOMAIN allSlots'
              /\ \E call \in BagToSet(dateFetches') :
                    /\ call.date = selectedDate'
                    /\ CopiesIn(call, dateFetches') = CopiesIn(call, dateFetches) + 1
      ]_vars

\* the cache was replaced while the 4th was selected, by an answer that has
\* the 4th without slots: the empty list is shown and no fetch was started
C21_Witness ==
    /\ lastEvent.kind = "bulkOk"
    /\ selectedDate = DayB
    /\ DayB \in DOMAIN allSlots
    /\ allSlots[DayB] = <<>>
    /\ availableSlots = <<>>
    /\ dateFetches = EmptyBag

\* C22: the step in which a single-date fetch for a date succeeds leaves a
\* cache entry for that date holding the fetched slots, which are the slots
\* displayed, so that a later selection of the date needs no fetch
C22_DateFetchPopulatesCache ==
    [][lastEvent'.kind = "dateOk" =>
          \E call \in BagToSet(dateFetches) :
              /\ CopiesIn(call, dateFetches') = CopiesIn(call, dateFetches) - 1
              /\ call.date \in DOMAIN allSlots'
              /\ allSlots'[call.date] = availableSlots'
      ]_vars

\* C23: the step in which a bulk fetch or a single-date fetch fails leaves
\* the cache as it was, clears the loading flag of that fetch, and changes
\* neither the selected date, nor the selected slot, nor the viewer timezone
C23_FailedFetchKeepsCache ==
    [][lastEvent'.kind \in {"bulkFail", "dateFail"} =>
          /\ allSlots' = allSlots
          /\ selectedDate' = selectedDate
          /\ selectedTime' = selectedTime
          /\ selectedTimezone' = selectedTimezone
          /\ lastEvent'.kind = "bulkFail" => ~ initialLoading'
          /\ lastEvent'.kind = "dateFail" => ~ loading'
      ]_vars

\* a bulk fetch has failed while the cache of an earlier one holds dates
\* and a date and a slot are selected
C23_Witness ==
    /\ lastEvent.kind = "bulkFail"
    /\ allSlots # EmptyMap
    /\ selectedDate # <<>>
    /\ selectedTime # <<>>
    /\ ~ initialLoading

\* the minute of the day at which a slot that starts at the display time
\* startTime ends
EndMinuteOfDay(startTime) ==
    (parseInt(SubSeq(startTime, 1, 2)) * 60 + parseInt(SubSeq(startTime, 4, 5)) + 45) % 1440

\* the minute m of the day on a 12-hour clock with its suffix
TwelveHourClock(m) ==
    LET h == m \div 60
    IN  padStart2(IF h % 12 = 0 THEN 12 ELSE h % 12) \o <<":">> \o padStart2(m % 60)
          \o <<" ">> \o (IF h < 12 THEN SuffixAm ELSE SuffixPm)

\* C24: the end of a slot is its display start plus 45 minutes on a 24-hour
\* clock: for every display start hh:mm the end is (hh*60+mm+45) mod 1440,
\* written with the hour in 00..23 and the minute in 00..59, and its
\* 12-hour rendering carries the a. m. or p. m. of that time (a start of
\* 23:30 ends at 12:15 a. m.)
C24_EndTimeWrapsAtMidnight ==
    slotLabel.rendered =>
        LET m == EndMinuteOfDay(slotLabel.startTime)
        IN  /\ slotLabel.endTime = padStart2(m \div 60) \o <<":">> \o padStart2(m % 60)
            /\ slotLabel.display = TwelveHourClock(m)

\* the calendar day of the provider at the instant t, in days since
\* 1970-01-01
ProviderDay(t) == (t.s + UtcOffsetMinutes(ghlTimezone, t.s) * 60) \div 86400

\* the instant at which the clock of the provider reads the second
\* secOfDay of the day, and ms milliseconds
ProviderInstant(day, secOfDay, ms) ==
    [s  |-> day * 86400 + secOfDay - UtcOffsetMinutes(ghlTimezone, day * 86400 + 43200) * 60,
     ms |-> ms]

\* C25: the startDate of the bulk fetch is the instant of 00:00:00 of the
\* provider's current calendar day and its endDate the instant of
\* 23:59:59.999 of the provider's calendar day 28 days later, whatever the
\* zone of the browser
C25_RangeIsProviderDays ==
    rangeCall.computed =>
        /\ rangeCall.startTimestamp = ProviderInstant(ProviderDay(rangeCall.now), 0, 0)
        /\ rangeCall.endTimestamp =
              ProviderInstant(ProviderDay(rangeCall.now) + 28, 86399, 999)

\* the viewer timezone that the detection is to end with for the runtime
\* timezones of the model
ExpectedDetection(runtimeTz) ==
    CASE runtimeTz \in TIMEZONES -> runtimeTz
      [] runtimeTz = "America/Santa_Isabel" -> "America/Tijuana"
      [] runtimeTz \in {"America/Vancouver", "America/Phoenix"} -> "America/Los_Angeles"
      [] runtimeTz \in {"America/Guatemala", "America/Belize", "Mexico/General"} ->
             "America/Mexico_City"
      [] OTHER -> "America/Mexico_City"

\* C26: the detection at mount ends with a viewer timezone of the supported
\* list: a supported runtime timezone, after the alias mapping, is selected
\* as it is, another name goes through the regional cues, and a name
\* without a cue or a runtime that fails yields America/Mexico_City; in
\* every later state the viewer timezone is a member of the supported list
C26_DetectionEndsSupported ==
    /\ [](selectedTimezone = "" \/ selectedTimezone \in TIMEZONES)
    /\ [][lastEvent'.kind = "mount" =>
             /\ selectedTimezone' \in TIMEZONES
             /\ selectedTimezone' = ExpectedDetection(lastEvent'.browserTz)
         ]_vars
    /\ [][selectedTimezone # "" => selectedTimezone' \in TIMEZONES]_vars

\* the runtime reports the alias America/Santa_Isabel and the viewer
\* timezone is America/Tijuana
C26_Witness ==
    /\ lastEvent.kind = "mount"
    /\ lastEvent.browserTz = "America/Santa_Isabel"
    /\ selectedTimezone = "America/Tijuana"

\* C27: the step in which the viewer timezone changes clears the selected
\* date, the selected slot and the displayed slots, whatever the cache
\* holds at that moment, an empty cache included
C27_TimezoneChangeClearsSelection ==
    [][lastEvent'.kind = "changeTimezone" =>
          /\ selectedDate' = <<>>
          /\ selectedTime' = <<>>
          /\ availableSlots' = <<>>
      ]_vars

\* the calendar-date part of a provider timestamp: its first ten characters
CalendarDatePart(timestamp) ==
    IF Len(timestamp) >= 10 THEN SubSeq(timestamp, 1, 10) ELSE timestamp

\* C28: whenever an appointment request is issued, the calendar-date part
\* of its startTime equals the selected date, also when a single-date fetch
\* for a date selected earlier resolves after another date was selected
C28_RequestIsForSelectedDate ==
    [][lastEvent'.kind = "bookingSent" =>
          CalendarDatePart(appointmentCalls'[Len(appointmentCalls')].body.startTime)
             = selectedDate
      ]_vars

\* the request i is answered in this step
Answered(i) == appointmentCalls[i].state = "sent" /\ appointmentCalls'[i].state # "sent"

\* the handler made the call of this name for the exchange
CallMade(exchange, name) == \E k \in DOMAIN exchange.calls : exchange.calls[k] = name

\* C29: once the provider has created the appointment the response is a
\* success carrying the appointment, whatever the tag removal, the tag
\* addition and the webhook delivery give; if the removal of survey_pending
\* fails, survey_completed is not added
C29_CreatedAppointmentAlwaysSucceeds ==
    [][lastEvent'.kind = "postAppointment" =>
          \A i \in DOMAIN appointmentCalls : Answered(i) =>
              LET outcome == lastEvent'.outcome
                  exchange == appointmentCalls'[i]
              IN  /\ outcome.created =>
                        /\ exchange.state = "ok"
                        /\ exchange.ghlPayload = <<AppointmentPayload(exchange.body)>>
                  /\ (outcome.created /\ ~ outcome.removed) =>
                        /\ ~ CallMade(exchange, "addTags")
                        /\ contactTags' = contactTags
      ]_vars

\* an appointment was created, the tag removal failed and the webhook
\* delivery failed, and the response is a success
C29_Witness ==
    /\ lastEvent.kind = "postAppointment"
    /\ lastEvent.outcome.created
    /\ ~ lastEvent.outcome.removed
    /\ lastEvent.outcome.webhook = "fails"
    /\ \E i \in DOMAIN appointmentCalls :
          /\ appointmentCalls[i].state = "ok"
          /\ CallMade(appointmentCalls[i], "webhook")
          /\ ~ CallMade(appointmentCalls[i], "addTags")

\* C30: the tags are changed and the webhook is called only after the
\* provider's creation call has succeeded, the webhook only when surveyData
\* was supplied; a request without contactId, startTime, endTime or title
\* is answered 400 without any call to the provider; a failed creation is
\* answered 500 and neither tags nor webhook are touched
C30_SideEffectsFollowCreation ==
    [][lastEvent'.kind = "postAppointment" =>
          \A i \in DOMAIN appointmentCalls : Answered(i) =>
              LET outcome == lastEvent'.outcome
                  exchange == appointmentCalls'[i]
              IN  /\ MissingFields(exchange.body) =>
                        /\ exchange.state = "400"
                        /\ exchange.calls = <<>>
                        /\ UNCHANGED serverVars
                  /\ (~ MissingFields(exchange.body) /\ ~ outcome.created) =>
                        /\ exchange.state = "500"
                        /\ exchange.calls = <<"createAppointment">>
                        /\ UNCHANGED serverVars
                  /\ \A k \in DOMAIN exchange.calls :
                        exchange.calls[k] \in {"removeTags", "addTags", "webhook"} =>
                            /\ k > 1
                            /\ exchange.calls[1] = "createAppointment"
                            /\ outcome.created
                  /\ CallMade(exchange, "webhook") => exchange.body.surveyData
      ]_vars

\* a request with surveyData was answered after the creation, the two tag
\* calls and the webhook, in this order, and one without a title with 400
C30_Witness ==
    /\ lastEvent.kind = "postAppointment"
    /\ \E i \in DOMAIN appointmentCalls :
          /\ appointmentCalls[i].state = "ok"
          /\ appointmentCalls[i].body.surveyData
          /\ appointmentCalls[i].calls =
                <<"createAppointment", "removeTags", "addTags", "webhook">>
    /\ \E i \in DOMAIN appointmentCalls :
          /\ appointmentCalls[i].state = "400"
          /\ appointmentCalls[i].body.title = ""

====
